---- MODULE Spec2Model ----
(***************************************************************************)
(* A model of the SEO audit server of server/routes.ts (registerRoutes):   *)
(* the POST /api/audit orchestration over the five analyzers and the GET   *)
(* endpoints of single analyzers.  One action is one run of the event loop: *)
(* the synchronous part of a handler, or the arrival of one I/O result     *)
(* together with the promise continuations it releases.                    *)
(***************************************************************************)
EXTENDS Integers, Sequences, FiniteSets, TLC

VARIABLES
    req,            \* the HTTP request being served: [route, url]
    apiKey,         \* process.env.PAGESPEED_API_KEY is configured
    pc,             \* position of the route handler: "idle", "waiting", "sent"
    promise,        \* the promise returned by each analyzer
    desktop,        \* the desktop scoring call of analyzeSpeed
    mobile,         \* the mobile scoring call of analyzeSpeed
    metaCall,       \* analyzeMeta: the request for the page
    linkJob,        \* analyzeLinks: the page fetch, the two probe batches
    robotsProbe,    \* analyzeRobots: the promise of checkRobotsTxt
    sitemapProbe,   \* analyzeRobots: the promise of checkSitemap
    headCall,       \* analyzeHeaders: the HEAD request
    getCall,        \* analyzeHeaders: the fallback GET request
    issued,         \* number of outbound calls issued, per kind of call
    res             \* the HTTP response written by the handler

vars == <<req, apiKey, pc, promise, desktop, mobile, metaCall, linkJob,
          robotsProbe, sitemapProbe, headCall, getCall, issued, res>>

----------------------------------------------------------------------------
(* Values shared by the whole model *)

\* An object with no fields ({} in the source)
Empty == [x \in {} |-> x]

Has(obj, field) == field \in DOMAIN obj

Min(a, b) == IF a < b THEN a ELSE b

RECURSIVE SumSeq(_)
SumSeq(s) == IF s = <<>> THEN 0 ELSE Head(s) + SumSeq(Tail(s))

\* Mutation of Positive: the scores that are 0 stay in the mean
KeepAll(s) == s

RECURSIVE Positive(_)
\* s.filter(x => x > 0)
Positive(s) ==
    IF s = <<>> THEN <<>>
    ELSE IF Head(s) > 0 THEN <<Head(s)>> \o Positive(Tail(s))
    ELSE Positive(Tail(s))

\* The states of a promise or of an axios call
None == [st |-> "none"]
Pending == [st |-> "pending"]
Fulfilled(v) == [st |-> "fulfilled", value |-> v]
Rejected(msg) == [st |-> "rejected", reason |-> msg]

Settled(p) == p.st \in {"fulfilled", "rejected"}

Analyzers == {"speed", "meta", "links", "robots", "headers"}

----------------------------------------------------------------------------
(* Strings the code inspects character by character: tuples of characters *)

ToLowerChar(c) ==
    CASE c = "A" -> "a" [] c = "B" -> "b" [] c = "C" -> "c" [] c = "D" -> "d"
      [] c = "E" -> "e" [] c = "F" -> "f" [] c = "G" -> "g" [] c = "H" -> "h"
      [] c = "I" -> "i" [] c = "J" -> "j" [] c = "K" -> "k" [] c = "L" -> "l"
      [] c = "M" -> "m" [] c = "N" -> "n" [] c = "O" -> "o" [] c = "P" -> "p"
      [] c = "Q" -> "q" [] c = "R" -> "r" [] c = "S" -> "s" [] c = "T" -> "t"
      [] c = "U" -> "u" [] c = "V" -> "v" [] c = "W" -> "w" [] c = "X" -> "x"
      [] c = "Y" -> "y" [] c = "Z" -> "z" [] OTHER -> c

\* String.prototype.toLowerCase
ToLowerCase(s) == [i \in 1..Len(s) |-> ToLowerChar(s[i])]

\* String.prototype.includes
Includes(s, sub) ==
    \E i \in 0..(Len(s) - Len(sub)) : SubSeq(s, i + 1, i + Len(sub)) = sub

----------------------------------------------------------------------------
(* URLs.  A url of the request is the text the client sent, described by   *)
(* what the WHATWG parser (new URL) makes of it: its scheme ("" when the   *)
(* text has none, as in "example.com") and its host ("" when it has none,  *)
(* as in "mailto:a@example.com" or "https://").                            *)

NoUrl == [given |-> FALSE, scheme |-> "", host |-> ""]
Url(scheme, host) == [given |-> TRUE, scheme |-> scheme, host |-> host]

Urls ==
    { NoUrl,                          \* the body or query has no url
      Url("", "example.com"),         \* "example.com"
      Url("https", ""),               \* "https://"
      Url("https", "example.com"),    \* "https://example.com/"
      Url("http", "example.com"),     \* "http://example.com/"
      Url("ftp", "example.com"),      \* "ftp://example.com/"
      Url("mailto", "") }             \* "mailto:a@example.com"

\* The schemes whose URLs have a host and a tuple origin
SpecialSchemes == {"http", "https", "ftp", "ws", "wss"}

\* new URL(text) does not throw
UrlParses(u) ==
    /\ u.given
    /\ u.scheme # ""
    /\ (u.scheme \in SpecialSchemes => u.host # "")

\* new URL(text).origin is not the opaque origin "null"
HasOrigin(u) == UrlParses(u) /\ u.scheme \in SpecialSchemes

\* axios can send a request to the url: its http adapter serves these schemes
Fetchable(u) == UrlParses(u) /\ u.scheme \in {"http", "https"}

Routes == {"audit", "speed", "meta", "links", "robots", "headers"}

\* http://example.com/ stands for a plain site: each call made for it gets
\* one answer or fails one way, where https://example.com/ meets the whole
\* range of answers
PlainSite == req.url.scheme = "http"

Requests == [route : Routes, url : Urls]

----------------------------------------------------------------------------
(* analyzeSpeed: the two calls to the PageSpeed Insights API *)

\* The ids of the Lighthouse audits read for each Core Web Vital
VitalAudit ==
    [lcp |-> "largest-contentful-paint",
     fid |-> "max-potential-fid",
     cls |-> "cumulative-layout-shift",
     fcp |-> "first-contentful-paint",
     si  |-> "speed-index"]

Vitals == DOMAIN VitalAudit

AuditIds == {VitalAudit[k] : k \in Vitals}

\* A 2xx answer of the API always carries lighthouseResult.categories; the
\* performance category and the audits object may be missing.  perf is <<>>
\* or <<t>>, the category score in thousandths (score = t / 1000, 0 <= score
\* <= 1); audits is <<>> or <<a>>, a mapping an audit id to its displayValue
\* ("" when the audit has no displayValue).
PsiResponse(perf, audits) == [perf |-> perf, audits |-> audits]

FullAudits == [id \in AuditIds |-> "1.2 s"]
LcpOnlyAudits == [id \in {"largest-contentful-paint"} |-> "2.5 s"]

\* Every audits object over the five ids, each id missing, without a
\* displayValue, or with one
AllAudits == UNION {[S -> {"", "1.2 s"}] : S \in SUBSET AuditIds}

\* The number of steps of the grid of category scores tried on GET /api/speed
ScoreSteps == 3

\* The category scores tried on GET /api/speed, in thousandths: none, and
\* the points of a grid over 0..1
ScoreGrid == {<<>>} \cup {<<k * (1000 \div ScoreSteps)>> : k \in 0..ScoreSteps}

DesktopResponses(route) ==
    IF route = "speed"
    THEN {PsiResponse(p, a) : p \in ScoreGrid, a \in {<<>>, <<FullAudits>>}}
    ELSE {PsiResponse(<<>>, <<FullAudits>>), PsiResponse(<<294>>, <<FullAudits>>)}

MobileResponses(route) ==
    IF route = "speed"
    THEN {PsiResponse(p, a) : p \in ScoreGrid,
                              a \in {<<>>} \cup {<<x>> : x \in AllAudits}}
    ELSE {PsiResponse(<<0>>, <<>>), PsiResponse(<<876>>, <<LcpOnlyAudits>>)}

\* The API scores only pages it can load over http(s); any other url makes
\* both calls fail with a 4xx
Scorable(u) == Fetchable(u)

CallFailure == "Request failed with status code 400"

DesktopOutcomes ==
    {Rejected(CallFailure)} \cup
    (IF ~Scorable(req.url) THEN {}
     ELSE IF PlainSite THEN {Fulfilled(PsiResponse(<<294>>, <<FullAudits>>))}
     ELSE {Fulfilled(r) : r \in DesktopResponses(req.route)})

MobileOutcomes ==
    {Rejected(CallFailure)} \cup
    (IF ~Scorable(req.url) THEN {}
     ELSE IF PlainSite THEN {Fulfilled(PsiResponse(<<876>>, <<LcpOnlyAudits>>))}
     ELSE {Fulfilled(r) : r \in MobileResponses(req.route)})

KeyMissingMessage == "PageSpeed API key not configured"

\* Mutation of KeyConfigured: the check of the credential is skipped
KeyAlwaysPresent == TRUE

\* !apiKey is false
KeyConfigured == apiKey

\* Math.round(score * 100) for score = t / 1000
RoundScore(t) == (t + 5) \div 10

\* lighthouse.categories.performance?.score || 0, in thousandths
CategoryScore(r) == IF r.perf = <<>> THEN 0 ELSE r.perf[1]

NotAvailable == "N/A"

\* audits[id]?.displayValue || 'N/A'
DisplayValue(audits, id) ==
    IF id \in DOMAIN audits /\ audits[id] # "" THEN audits[id] ELSE NotAvailable

CoreWebVitalsOf(audits) == [k \in Vitals |-> DisplayValue(audits, VitalAudit[k])]

\* Mutation of VitalsSource: the desktop result stands in for a failed mobile call
VitalsFromEither(d, m) == IF m.st = "fulfilled" THEN m ELSE d

\* The call whose audits coreWebVitals is extracted from
VitalsSource(d, m) == m

\* The SpeedResult built once both calls have settled
SpeedReport(d, m) ==
    LET v == VitalsSource(d, m) IN
    (IF d.st = "fulfilled"
     THEN [performance |-> [score |-> RoundScore(CategoryScore(d.value)),
                            strategy |-> "desktop"]]
     ELSE Empty)
    @@
    (IF m.st = "fulfilled"
     THEN [mobile |-> [score |-> RoundScore(CategoryScore(m.value)),
                       strategy |-> "mobile"]]
     ELSE Empty)
    @@
    (IF v.st = "fulfilled" /\ v.value.audits # <<>>
     THEN [coreWebVitals |-> CoreWebVitalsOf(v.value.audits[1])]
     ELSE Empty)

\* What analyzeSpeed settles with after the await of Promise.allSettled
analyzeSpeedSettles(d, m) == Fulfilled(SpeedReport(d, m))

\* The promise of analyzeSpeed once a scoring call has settled
SpeedAfter(d, m) ==
    IF Settled(d) /\ Settled(m) THEN analyzeSpeedSettles(d, m) ELSE promise["speed"]

----------------------------------------------------------------------------
(* analyzeMeta: the eight findings of a fetched page *)

Finding(name, status) == [name |-> name, status |-> status]

TitleMin == 30
TitleMax == 60
DescriptionMin == 120
DescriptionMax == 160
H1Max == 70
OgWarningMax == 2

\* Mutation of analyzeTitle: a title of 30 or of 60 characters is a warning
analyzeTitleStrict(title) ==
    Finding("Title Tag",
            IF title = 0 THEN "error"
            ELSE IF title <= TitleMin THEN "warning"
            ELSE IF title >= TitleMax THEN "warning"
            ELSE "good") @@ [length |-> title]

\* title is the length of the trimmed text of <title>
analyzeTitle(title) ==
    Finding("Title Tag",
            IF title = 0 THEN "error"
            ELSE IF title < TitleMin THEN "warning"
            ELSE IF title > TitleMax THEN "warning"
            ELSE "good") @@ [length |-> title]

analyzeDescription(description) ==
    Finding("Meta Description",
            IF description = 0 THEN "error"
            ELSE IF description < DescriptionMin THEN "warning"
            ELSE IF description > DescriptionMax THEN "warning"
            ELSE "good") @@ [length |-> description]

\* canonical is "none" (no href), "valid", or "invalid" (new URL throws)
analyzeCanonical(canonical) ==
    Finding("Canonical URL",
            IF canonical = "none" THEN "warning"
            ELSE IF canonical = "invalid" THEN "error"
            ELSE "good")

OgRequired == {"og:title", "og:description", "og:image", "og:url"}

analyzeOpenGraph(ogTags) ==
    LET missingTags == OgRequired \ ogTags IN
    Finding("Open Graph Tags",
            IF Cardinality(missingTags) > 0
            THEN (IF Cardinality(missingTags) > OgWarningMax THEN "error" ELSE "warning")
            ELSE "good")

analyzeTwitterCards(twitterTags) ==
    Finding("Twitter Cards",
            IF "twitter:card" \notin twitterTags THEN "warning"
            ELSE IF "twitter:title" \notin twitterTags
                    \/ "twitter:description" \notin twitterTags THEN "warning"
            ELSE "good")

\* viewport is "none", "device-width" (the content includes
\* width=device-width) or "other"
analyzeViewport(viewport) ==
    Finding("Viewport Meta Tag",
            IF viewport = "none" THEN "error"
            ELSE IF viewport # "device-width" THEN "warning"
            ELSE "good")

analyzeLanguage(lang) ==
    Finding("Language Declaration", IF lang THEN "good" ELSE "warning")

\* h1Tags is the sequence of the lengths of the texts of the h1 elements
analyzeH1Tags(h1Tags) ==
    Finding("H1 Tags",
            IF Len(h1Tags) = 0 THEN "error"
            ELSE IF Len(h1Tags) > 1 THEN "warning"
            ELSE IF h1Tags[1] > H1Max THEN "warning"
            ELSE "good")

\* The text of <title> is <<lead, text, trail>>: text characters that begin
\* and end with one that is no white space, between lead and trail characters
\* of white space.  This is the length of $('title').text().trim()
TrimmedLength(title) == title[2]

MetaItems(page) ==
    << analyzeTitle(TrimmedLength(page.title)),
       analyzeDescription(page.description),
       analyzeCanonical(page.canonical),
       analyzeOpenGraph(page.og),
       analyzeTwitterCards(page.twitter),
       analyzeViewport(page.viewport),
       analyzeLanguage(page.lang),
       analyzeH1Tags(page.h1) >>

MetaPage(title, description, canonical, og, twitter, viewport, lang, h1) ==
    [title |-> title, description |-> description, canonical |-> canonical,
     og |-> og, twitter |-> twitter, viewport |-> viewport, lang |-> lang, h1 |-> h1]

TwitterFull == {"twitter:card", "twitter:title", "twitter:description"}

\* A page every finding of which is good
GoodPage == MetaPage(<<0, 45, 0>>, 150, "valid", OgRequired, TwitterFull, "device-width", TRUE, <<20>>)

\* A page with a short title, a bad canonical link and two h1 elements
MixedPage ==
    MetaPage(<<1, 29, 0>>, 150, "invalid", {"og:title", "og:url"}, {"twitter:card"},
             "other", TRUE, <<12, 80>>)

\* A page whose title alone is 300 million characters long
HugeTitlePage ==
    MetaPage(<<0, 300000000, 0>>, 0, "none", {}, {}, "none", FALSE, <<>>)

MetaPages == {GoodPage, MixedPage, HugeTitlePage}

\* The longest title text tried on GET /api/meta
MaxTitle == 62

\* The pages tried on GET /api/meta: every title of up to MaxTitle characters,
\* bare or within white space
TitlePages ==
    {[GoodPage EXCEPT !.title = <<lead, text, trail>>] :
        lead \in 0..1, text \in 0..MaxTitle, trail \in 0..1}

PageFailures == {"timeout of 15000ms exceeded"}

UnsupportedProtocol == "Unsupported protocol"

\* The outcomes of axios.get(url) in analyzeMeta
MetaOutcomes ==
    IF ~Fetchable(req.url) THEN {Rejected(UnsupportedProtocol)}
    ELSE IF PlainSite
    THEN {Rejected(e) : e \in PageFailures} \cup {Fulfilled(GoodPage)}
    ELSE {Rejected(e) : e \in PageFailures}
         \cup {Fulfilled(page) : page \in MetaPages}
         \cup (IF req.route = "meta" THEN {Fulfilled(page) : page \in TitlePages}
               ELSE {})

\* Mutation of analyzeMetaSettles: the findings made before a failure are kept
analyzeMetaKeepsFindings(call) ==
    IF call.st = "fulfilled" THEN Fulfilled(MetaItems(call.value))
    ELSE Rejected("Meta analysis failed: " \o call.reason)
         @@ [value |-> <<analyzeTitle(0)>>]

\* What analyzeMeta settles with once the request for the page has settled
analyzeMetaSettles(call) ==
    IF call.st = "fulfilled" THEN Fulfilled(MetaItems(call.value))
    ELSE Rejected("Meta analysis failed: " \o call.reason)

----------------------------------------------------------------------------
(* analyzeLinks: the anchors of the page and the two batches of probes *)

\* An href is described by the shape of its trimmed text and by the host it
\* names (if any):
\*   "blank"       ""                   "hash"    "#"
\*   "javascript"  "javascript:..."     "mailto"  "mailto:..."
\*   "tel"         "tel:..."            "protorel" "//host/path"
\*   "rooted"      "/path"              "relative" "path" (no "://")
\*   "scheme"      "sms:..." (a scheme, no "://")
\*   "absolute"    "https://host/path"
\*   "embedded"    "go?to=http://host" (no leading "/", "://" further on)
\* host is "" for a "protorel" or "absolute" href that new URL rejects.  An
\* href in another letter case ("MAILTO:...") is a "scheme" href: startsWith
\* tells the cases apart.
Href(form, host) == [form |-> form, host |-> host]

NotNavigable == {"blank", "hash", "javascript", "mailto", "tel"}

\* new URL(...) of lines 378-384 throws
ResolveFails(h) ==
    \/ h.form \in {"protorel", "absolute"} /\ h.host = ""
    \/ h.form = "embedded"

\* fullUrl.hostname
ResolvedHost(h, base) ==
    IF h.form \in {"rooted", "relative"} THEN base.host
    ELSE IF h.form = "scheme" THEN ""
    ELSE h.host

\* Mutation of Bucket: a mailto: href is resolved like any other
BucketKeepingMailto(h, base) ==
    IF h.form \in NotNavigable \ {"mailto"} THEN "dropped"
    ELSE IF ResolveFails(h) THEN "dropped"
    ELSE IF h.form \notin {"mailto"} /\ ResolvedHost(h, base) = base.host
    THEN "internal"
    ELSE "external"

\* The bucket of one href: "internal", "external" or "dropped"
Bucket(h, base) ==
    IF h.form \in NotNavigable THEN "dropped"
    ELSE IF ResolveFails(h) THEN "dropped"
    ELSE IF ResolvedHost(h, base) = base.host THEN "internal"
    ELSE "external"

RECURSIVE Categorize(_, _, _)
\* The links of one bucket, in the order of the anchors
Categorize(anchors, base, type) ==
    IF anchors = <<>> THEN <<>>
    ELSE (IF Bucket(Head(anchors), base) = type
          THEN << [href |-> Head(anchors), type |-> type] >> ELSE <<>>)
         \o Categorize(Tail(anchors), base, type)

SampleLimit == 10

\* Mutation of Sample: every link is probed
WholeList(links) == links

\* links.slice(0, 10)
Sample(links) == SubSeq(links, 1, Min(SampleLimit, Len(links)))

BrokenFrom == 400

ProbeAnswer(code) == [code |-> code]
ProbeError(msg) == [error |-> msg]

\* Mutation of CheckedLink: a link is broken from status 500 on
CheckedLinkLenient(link, outcome) ==
    IF Has(outcome, "code")
    THEN link @@ [status |-> IF outcome.code >= 500 THEN "broken" ELSE "working",
                  statusCode |-> outcome.code]
    ELSE link @@ [status |-> "broken", error |-> outcome.error]

\* What one probe of checkLinksStatus resolves with
CheckedLink(link, outcome) ==
    IF Has(outcome, "code")
    THEN link @@ [status |-> IF outcome.code >= BrokenFrom THEN "broken" ELSE "working",
                  statusCode |-> outcome.code]
    ELSE link @@ [status |-> "broken", error |-> outcome.error]

CountStatus(checked, status) ==
    Cardinality({i \in 1..Len(checked) : checked[i].status = status})

BucketStatus(checked) ==
    IF \E i \in 1..Len(checked) : checked[i].status = "broken" THEN "warning" ELSE "good"

LinksReport(checkedInternal, checkedExternal, external) ==
    [internal |-> [links |-> checkedInternal,
                   working |-> CountStatus(checkedInternal, "working"),
                   broken |-> CountStatus(checkedInternal, "broken"),
                   status |-> BucketStatus(checkedInternal)],
     external |-> [links |-> checkedExternal,
                   working |-> CountStatus(checkedExternal, "working"),
                   broken |-> CountStatus(checkedExternal, "broken"),
                   total |-> Len(external),
                   status |-> BucketStatus(checkedExternal)]]

NoJob == [phase |-> "none"]
FetchingPage == [phase |-> "fetch"]

\* checkLinksStatus(batch) has been called: one probe in flight per link
Probing(phase, batch, job) ==
    [phase |-> phase, batch |-> batch, probes |-> [i \in 1..Len(batch) |-> Pending],
     allLinks |-> job.allLinks, internal |-> job.internal,
     external |-> job.external, checkedInternal |-> job.checkedInternal]

BatchSettled(job) == \A i \in 1..Len(job.probes) : job.probes[i] # Pending

BatchChecked(job) == [i \in 1..Len(job.batch) |-> job.probes[i]]

\* The continuation of analyzeLinks after the await of the external batch
AfterExternal(job) ==
    IF job.phase = "external" /\ BatchSettled(job)
    THEN [phase |-> "done",
          allLinks |-> job.allLinks, internal |-> job.internal,
          external |-> job.external,
          report |-> LinksReport(job.checkedInternal, BatchChecked(job), job.external)]
    ELSE job

\* The continuation of analyzeLinks after the await of the internal batch
AfterInternal(job) ==
    IF job.phase = "internal" /\ BatchSettled(job)
    THEN AfterExternal(Probing("external", Sample(job.external),
                               [job EXCEPT !.checkedInternal = BatchChecked(job)]))
    ELSE AfterExternal(job)

\* The continuation of analyzeLinks after the page has been fetched
AfterPage(anchors, base) ==
    AfterInternal(Probing("internal", Sample(Categorize(anchors, base, "internal")),
                          [allLinks |-> anchors,
                           internal |-> Categorize(anchors, base, "internal"),
                           external |-> Categorize(anchors, base, "external"),
                           checkedInternal |-> <<>>]))

\* The number of probes a step of analyzeLinks has put in flight
ProbesStarted(before, after, phase) ==
    IF Has(after, "batch") /\ after.phase = phase
       /\ (before.phase # phase) THEN Len(after.batch)
    ELSE 0

\* Mutation of LinksPromise: analyzeLinks returns once the external probes
\* are in flight
LinksPromiseEarly(job) ==
    IF job.phase = "done" THEN Fulfilled(job.report)
    ELSE IF job.phase = "external" THEN Fulfilled(Empty)
    ELSE Pending

LinksPromise(job) ==
    IF job.phase = "done" THEN Fulfilled(job.report) ELSE Pending

\* A page with one link to its own site and one to another site
TwoLinksPage == << Href("rooted", ""), Href("absolute", "other.example") >>

\* A page with nothing to probe
NoLinksPage == << Href("hash", ""), Href("mailto", "") >>

\* The number of anchors of the long page tried on GET /api/links
PageLinks == 34

\* A long page: in turn an anchor to its own site, one to another site and
\* one to "#"; text, the text of the anchor, is its position on the page
ManyLinksPage ==
    [i \in 1..PageLinks |->
        (IF i % 3 = 1 THEN Href("rooted", "")
         ELSE IF i % 3 = 2 THEN Href("absolute", "other.example")
         ELSE Href("hash", "")) @@ [text |-> i]]

\* The pages tried on GET /api/links: the long page, and every page of one
\* anchor
AnchorPages ==
    {ManyLinksPage} \cup
    {<<Href(form, host)>> :
        form \in NotNavigable \cup {"protorel", "rooted", "relative", "scheme",
                                    "absolute", "embedded"},
        host \in {"", "example.com", "other.example"}}

LinkPages ==
    IF PlainSite THEN {TwoLinksPage}
    ELSE {TwoLinksPage, NoLinksPage}
         \cup (IF req.route = "links" THEN AnchorPages ELSE {})

\* Mutation of ProbeOutcomes: a probe without a timeout that never settles
NeverAnswers == {}

\* What a probe can meet; on GET /api/links a batch of one or two probes
\* meets the statuses around 400 too, and a longer batch, of up to 10 probes
\* in flight at once, is answered 200 throughout
ProbeOutcomes ==
    IF PlainSite
    THEN {ProbeAnswer(200), ProbeError("timeout of 10000ms exceeded")}
    ELSE IF req.route = "links"
    THEN (IF Len(linkJob.batch) > 2 THEN {ProbeAnswer(200)}
          ELSE {ProbeAnswer(200), ProbeAnswer(301), ProbeAnswer(399),
                ProbeAnswer(400), ProbeAnswer(404), ProbeAnswer(500),
                ProbeError("timeout of 10000ms exceeded")})
    ELSE {ProbeAnswer(200), ProbeAnswer(404),
          ProbeError("timeout of 10000ms exceeded")}

----------------------------------------------------------------------------
(* analyzeRobots: the probes of /robots.txt and /sitemap.xml *)

OkStatus == 200

IsSpace(c) == c \in {" ", "\t", "\r"}

\* The string helpers are functions of the string, a sequence of characters
TrimStart[s \in Seq(STRING)] ==
    IF s # <<>> /\ IsSpace(Head(s)) THEN TrimStart[Tail(s)] ELSE s

TrimEnd[s \in Seq(STRING)] ==
    IF s # <<>> /\ IsSpace(s[Len(s)]) THEN TrimEnd[SubSeq(s, 1, Len(s) - 1)] ELSE s

\* String.prototype.trim
Trim[s \in Seq(STRING)] == TrimEnd[TrimStart[s]]

\* line.split('#')[0]
BeforeHash[s \in Seq(STRING)] ==
    IF s = <<>> \/ Head(s) = "#" THEN <<>> ELSE <<Head(s)>> \o BeforeHash[Tail(s)]

SitemapDirective == <<"s", "i", "t", "e", "m", "a", "p", ":">>

\* Mutation of StartsWith: the prefix may stand anywhere in the string
FoundAnywhere(s, prefix) == Includes(s, prefix)

\* String.prototype.startsWith
StartsWith(s, prefix) ==
    Len(s) >= Len(prefix) /\ SubSeq(s, 1, Len(prefix)) = prefix

RECURSIVE SitemapsOf(_)
\* The sitemaps of the lines of a robots.txt: lines 741-750
SitemapsOf(lines) ==
    IF lines = <<>> THEN <<>>
    ELSE LET line == Trim[Head(lines)]
             cleanLine == Trim[BeforeHash[line]]
         IN (IF line # <<>> /\ StartsWith(ToLowerCase(cleanLine), SitemapDirective)
             THEN << Trim[SubSeq(cleanLine, Len(SitemapDirective) + 1, Len(cleanLine))] >>
             ELSE <<>>)
            \o SitemapsOf(Tail(lines))

\* content.length of a body given by its lines, joined by "\n"
ContentLength(lines) ==
    SumSeq([i \in 1..Len(lines) |-> Len(lines[i])]) + (IF lines = <<>> THEN 0 ELSE Len(lines) - 1)

RobotsNotFound == [found |-> FALSE, accessible |-> FALSE, size |-> 0, sitemaps |-> <<>>]

HttpAnswer(status, body) == [status |-> status, body |-> body]
HttpError(msg) == [error |-> msg]

\* What checkRobotsTxt resolves with: it never rejects
checkRobotsTxt(outcome) ==
    IF Has(outcome, "error") THEN RobotsNotFound
    ELSE IF outcome.status # OkStatus THEN RobotsNotFound
    ELSE [found |-> TRUE, accessible |-> TRUE,
          size |-> ContentLength(outcome.body),
          sitemaps |-> SitemapsOf(outcome.body)]

SitemapNotFound == [found |-> FALSE, accessible |-> FALSE, urlCount |-> 0]

Max(a, b) == IF a > b THEN a ELSE b

\* The body of a sitemap answer: whether axios left it a string (it parses
\* a JSON body into an object), the Content-Type it came with ("xml",
\* "text" or "other"), whether it holds "<?xml", and its counts of <url>
\* tags, <loc> tags and lines that start with http
SitemapBody(isString, contentType, prolog, urls, locs, httpLines) ==
    [isString |-> isString, contentType |-> contentType, prolog |-> prolog,
     urls |-> urls, locs |-> locs, httpLines |-> httpLines]

\* What checkSitemap resolves with: it never rejects
checkSitemap(outcome) ==
    IF Has(outcome, "error") THEN SitemapNotFound
    ELSE IF outcome.status # OkStatus THEN SitemapNotFound
    ELSE LET b == outcome.body IN
         IF ~b.isString THEN SitemapNotFound    \* content.includes is not a function
         ELSE IF b.contentType = "xml" \/ b.prolog
              THEN [found |-> TRUE, accessible |-> TRUE,
                    urlCount |-> Max(b.urls, b.locs), format |-> "xml"]
              ELSE [found |-> TRUE, accessible |-> TRUE,
                    urlCount |-> b.httpLines, format |-> "text"]

\* { robotsTxt, sitemap }: the defaults overwritten by the probes' values
RobotsReport(robotsValue, sitemapValue) ==
    [robotsTxt |-> robotsValue @@ RobotsNotFound,
     sitemap |-> sitemapValue @@ SitemapNotFound]

\* Mutation of RobotsAfter: analyzeRobots fails unless both probes found
\* their file
RobotsAfterBothOrNothing(r, s) ==
    IF Settled(r) /\ Settled(s)
    THEN (IF r.value.found /\ s.value.found
          THEN Fulfilled(RobotsReport(r.value, s.value))
          ELSE Rejected("Robots analysis failed: not found"))
    ELSE promise["robots"]

RobotsAfter(r, s) ==
    IF Settled(r) /\ Settled(s)
    THEN Fulfilled(RobotsReport(r.value, s.value))
    ELSE promise["robots"]

\* A probe that resolved with a value, and the answer it got
Probed(value, answer) == Fulfilled(value) @@ [answer |-> answer]

\* Lines of a robots.txt: "Sitemap: s1", " sitemap:s2 # m", "# Sitemap: s3",
\* "User-agent: *", "SITEMAP:<tab>s4<cr>", "Disallow: /sitemap:",
\* "Sitemap: s5#x", "Sitemap:" and the empty line
SampleLine ==
    [ s1 |-> <<"S", "i", "t", "e", "m", "a", "p", ":", " ", "s", "1">>,
      s2 |-> <<" ", "s", "i", "t", "e", "m", "a", "p", ":", "s", "2", " ", "#", " ", "m">>,
      commented |-> <<"#", " ", "S", "i", "t", "e", "m", "a", "p", ":", " ", "s", "3">>,
      agent |-> <<"U", "s", "e", "r", "-", "a", "g", "e", "n", "t", ":", " ", "*">>,
      upper |-> <<"S", "I", "T", "E", "M", "A", "P", ":", "\t", "s", "4", "\r">>,
      disallow |-> <<"D", "i", "s", "a", "l", "l", "o", "w", ":", " ", "/", "s", "i", "t", "e", "m", "a", "p", ":">>,
      tight |-> <<"S", "i", "t", "e", "m", "a", "p", ":", " ", "s", "5", "#", "x">>,
      bare |-> <<"S", "i", "t", "e", "m", "a", "p", ":">>,
      blank |-> <<>> ]

RobotsLineSamples == {SampleLine[name] : name \in DOMAIN SampleLine}

MaxLines == 2

\* The bodies of at most MaxLines lines
RobotsBodies == UNION {[1..n -> RobotsLineSamples] : n \in 0..MaxLines}

RobotsLines == <<SampleLine.agent, SampleLine.s1, SampleLine.s2, SampleLine.commented>>

\* POST /api/audit sees one body and one failure, GET /api/robots every body
\* and every kind of failure
RobotsTxtOutcomes ==
    IF ~Fetchable(req.url) THEN {HttpError(UnsupportedProtocol)}
    ELSE IF req.route = "robots" /\ ~PlainSite
    THEN {HttpAnswer(200, body) : body \in RobotsBodies}
         \cup {HttpAnswer(204, <<>>), HttpAnswer(301, <<>>), HttpAnswer(404, <<>>),
               HttpAnswer(500, <<>>), HttpError("timeout of 10000ms exceeded")}
    ELSE IF PlainSite
    THEN {HttpAnswer(200, <<SampleLine.s1>>), HttpAnswer(404, <<>>)}
    ELSE {HttpAnswer(200, RobotsLines), HttpAnswer(404, <<>>)}

SitemapOutcomes ==
    IF ~Fetchable(req.url) THEN {HttpError(UnsupportedProtocol)}
    ELSE IF req.route = "robots" /\ ~PlainSite
    THEN {HttpAnswer(200, SitemapBody(TRUE, "xml", TRUE, 3, 3, 0)),
          HttpAnswer(200, SitemapBody(TRUE, "text", FALSE, 0, 0, 2)),
          HttpAnswer(200, SitemapBody(FALSE, "other", FALSE, 0, 0, 0)),
          HttpAnswer(404, SitemapBody(TRUE, "text", FALSE, 0, 0, 0)),
          HttpAnswer(503, SitemapBody(TRUE, "text", FALSE, 0, 0, 0)),
          HttpError("timeout of 15000ms exceeded")}
    ELSE {HttpAnswer(200, SitemapBody(TRUE, "xml", TRUE, 3, 3, 0)),
          HttpError("timeout of 15000ms exceeded")}

InvalidUrl == "Invalid URL"

\* analyzeRobots up to its await: new URL('/robots.txt', baseUrl.origin)
\* throws for an opaque origin
RobotsLaunched(u) ==
    IF HasOrigin(u) THEN Pending ELSE Rejected("Robots analysis failed: " \o InvalidUrl)

----------------------------------------------------------------------------
(* analyzeHeaders: HEAD, then a GET if the HEAD request failed *)

NoSniff == <<"n", "o", "s", "n", "i", "f", "f">>
Deny == <<"D", "E", "N", "Y">>
SameOrigin == <<"S", "A", "M", "E", "O", "R", "I", "G", "I", "N">>

\* Mutation of securityHeaders: a fifth header is scored too
FiveSecurityHeaders ==
    << [name |-> "Strict-Transport-Security", header |-> "strict-transport-security",
        expected |-> <<>>],
       [name |-> "X-Content-Type-Options", header |-> "x-content-type-options",
        expected |-> <<NoSniff>>],
       [name |-> "X-Frame-Options", header |-> "x-frame-options",
        expected |-> <<Deny, SameOrigin>>],
       [name |-> "Content-Security-Policy", header |-> "content-security-policy",
        expected |-> <<>>],
       [name |-> "Cache-Control", header |-> "cache-control", expected |-> <<>>] >>

\* The fixed list of security headers: name, header key, expected values
securityHeaders ==
    << [name |-> "Strict-Transport-Security", header |-> "strict-transport-security",
        expected |-> <<>>],
       [name |-> "X-Content-Type-Options", header |-> "x-content-type-options",
        expected |-> <<NoSniff>>],
       [name |-> "X-Frame-Options", header |-> "x-frame-options",
        expected |-> <<Deny, SameOrigin>>],
       [name |-> "Content-Security-Policy", header |-> "content-security-policy",
        expected |-> <<>>] >>

\* Mutation of HeaderStatus: the value must equal an expected value, letter
\* for letter
HeaderStatusExact(headerDef, headers) ==
    IF ~Has(headers, headerDef.header) \/ headers[headerDef.header] = <<>>
    THEN "error"
    ELSE IF headerDef.expected # <<>>
            /\ ~\E i \in 1..Len(headerDef.expected) :
                   headers[headerDef.header] = headerDef.expected[i]
         THEN "warning"
         ELSE "good"

\* The status of one security header; headers maps the names of the headers
\* received to their values
HeaderStatus(headerDef, headers) ==
    IF ~Has(headers, headerDef.header) \/ headers[headerDef.header] = <<>>
    THEN "error"
    ELSE IF headerDef.expected # <<>>
            /\ ~\E i \in 1..Len(headerDef.expected) :
                   Includes(ToLowerCase(headers[headerDef.header]),
                            ToLowerCase(headerDef.expected[i]))
         THEN "warning"
         ELSE "good"

analyzeSecurityHeaders(headers) ==
    [i \in 1..Len(securityHeaders) |->
        Finding(securityHeaders[i].name, HeaderStatus(securityHeaders[i], headers))]

analyzeCachingHeaders(headers) ==
    << Finding("Cache-Control",
               IF Has(headers, "cache-control") /\ headers["cache-control"] # <<>>
               THEN "good" ELSE "warning") >>

HeadersReport(headers) ==
    [security |-> analyzeSecurityHeaders(headers),
     caching |-> analyzeCachingHeaders(headers)]

\* All four security headers, X-Frame-Options in lower case
SecureHeaders ==
    [h \in {"strict-transport-security", "content-security-policy", "cache-control"}
        |-> <<"x">>]
    @@ [h \in {"x-content-type-options"} |-> NoSniff]
    @@ [h \in {"x-frame-options"} |-> <<"s", "a", "m", "e", "o", "r", "i", "g", "i", "n">>]

\* nosniff and an X-Frame-Options value that is not expected
PartialHeaders ==
    [h \in {"x-content-type-options"} |-> NoSniff]
    @@ [h \in {"x-frame-options"} |-> <<"A", "L", "L", "O", "W">>]

\* Every combination of: Strict-Transport-Security and
\* Content-Security-Policy absent, empty or "x"; X-Content-Type-Options
\* absent, empty, "nosniff", "NOSNIFF", "x-nosniff;" or "sniff";
\* X-Frame-Options absent, empty, "DENY", "SAMEORIGIN", "sameorigin",
\* "deny-all" or "ALLOW"; Cache-Control absent or "x"
HeaderSets ==
    LET Received(header, values) ==
            {Empty} \cup {[h \in {header} |-> value] : value \in values}
    IN
    { hsts @@ xcto @@ xfo @@ csp @@ cache :
        hsts \in Received("strict-transport-security", {<<>>, <<"x">>}),
        xcto \in Received("x-content-type-options",
                          {<<>>, NoSniff, <<"N", "O", "S", "N", "I", "F", "F">>, <<"x", "-", "n", "o", "s", "n", "i", "f", "f", ";">>, <<"s", "n", "i", "f", "f">>}),
        xfo \in Received("x-frame-options",
                         {<<>>, Deny, SameOrigin, <<"s", "a", "m", "e", "o", "r", "i", "g", "i", "n">>, <<"d", "e", "n", "y", "-", "a", "l", "l">>, <<"A", "L", "L", "O", "W">>}),
        csp \in Received("content-security-policy", {<<>>, <<"x">>}),
        cache \in Received("cache-control", {<<"x">>}) }

\* POST /api/audit sees three answers, GET /api/headers every set of headers
HeaderOutcomes ==
    IF ~Fetchable(req.url) THEN {HttpError(UnsupportedProtocol)}
    ELSE IF PlainSite
    THEN {HttpAnswer(200, SecureHeaders), HttpError("timeout of 15000ms exceeded")}
    ELSE IF req.route = "headers"
    THEN {HttpAnswer(200, headers) : headers \in HeaderSets}
         \cup {HttpAnswer(404, PartialHeaders), HttpAnswer(503, SecureHeaders),
               HttpError("timeout of 15000ms exceeded")}
    ELSE {HttpAnswer(200, SecureHeaders), HttpAnswer(503, PartialHeaders),
          HttpError("timeout of 15000ms exceeded")}

\* The fallback GET also fails when the body exceeds maxContentLength
GetOutcomes ==
    HeaderOutcomes
    \cup (IF Fetchable(req.url) /\ ~PlainSite
          THEN {HttpError("maxContentLength size of 1024 exceeded")} ELSE {})

\* An axios call that settled with the answer: validateStatus accepts every
\* status, so only an error rejects it
Called(answer) ==
    (IF Has(answer, "error") THEN Rejected(answer.error) ELSE Fulfilled(answer.status))
    @@ [answer |-> answer]

----------------------------------------------------------------------------
(* calculateScores and generateRecommendations *)

RobotsTxtPoints == 50
SitemapPoints == 50
HeaderPoints == 20
MetaPoints == 25
ScoreCap == 100

\* results[field]?.[part] is there
HasPart(results, field, part) == Has(results, field) /\ Has(results[field], part)

\* Math.round(a / b) for a >= 0, b > 0
RoundDiv(a, b) == (2 * a + b) \div (2 * b)

\* results.speed?.performance?.score, 0 when there is none
PerformanceScore(results) ==
    IF HasPart(results, "speed", "performance")
    THEN results.speed.performance.score ELSE 0

\* results.speed.mobile?.score, 0 when there is none
MobileScore(results) ==
    IF HasPart(results, "speed", "mobile")
    THEN results.speed.mobile.score ELSE 0

CountGood(items) == Cardinality({i \in 1..Len(items) : items[i].status = "good"})

\* Mutation of Capped: the sum is not capped
Uncapped(score) == score

\* Math.min(score, 100)
Capped(score) == Min(score, ScoreCap)

\* obj[part]?.found
Found(obj, part) == Has(obj, part) /\ obj[part].found

\* Mutation of RobotsFactor: the sitemap earns nothing
RobotsFactorTxtOnly(robots) ==
    IF Found(robots, "robotsTxt") THEN RobotsTxtPoints ELSE 0

RobotsFactor(robots) ==
    (IF Found(robots, "robotsTxt") THEN RobotsTxtPoints ELSE 0)
    + (IF Found(robots, "sitemap") THEN SitemapPoints ELSE 0)

SecurityFactor(headers) == Capped(HeaderPoints * CountGood(headers.security))

TechnicalScore(results) ==
    LET factors == (IF Has(results, "robots") THEN 1 ELSE 0)
                   + (IF HasPart(results, "headers", "security") THEN 1 ELSE 0)
        total == (IF Has(results, "robots") THEN RobotsFactor(results.robots) ELSE 0)
                 + (IF HasPart(results, "headers", "security")
                    THEN SecurityFactor(results.headers) ELSE 0)
    IN IF factors > 0 THEN RoundDiv(total, factors) ELSE 0

\* Mutation of ContentScore: a warning earns the points of a good finding
ContentScoreButErrors(results) ==
    IF HasPart(results, "meta", "items")
    THEN Capped(MetaPoints * Cardinality({i \in 1..Len(results.meta.items) :
                                             results.meta.items[i].status # "error"}))
    ELSE 0

ContentScore(results) ==
    IF HasPart(results, "meta", "items")
    THEN Capped(MetaPoints * CountGood(results.meta.items)) ELSE 0

calculateScores(results) ==
    LET performanceScore == PerformanceScore(results)
        mobileScore == IF performanceScore > 0
                       THEN (IF MobileScore(results) > 0 THEN MobileScore(results)
                             ELSE performanceScore)
                       ELSE 0
        technical == TechnicalScore(results)
        content == ContentScore(results)
        \* Object.values(scores) while scores.overall is still 0
        validScores == Positive(<<0, technical, content, performanceScore, mobileScore>>)
    IN [overall |-> IF Len(validScores) > 0
                    THEN RoundDiv(SumSeq(validScores), Len(validScores)) ELSE 0,
        technical |-> technical,
        content |-> content,
        performance |-> performanceScore,
        mobile |-> mobileScore]

SlowBelow == 80
VerySlowBelow == 50

Recommendation(title, priority, category) ==
    [title |-> title, priority |-> priority, category |-> category]

RECURSIVE MetaRecommendations(_)
MetaRecommendations(items) ==
    IF items = <<>> THEN <<>>
    ELSE (IF Head(items).status \in {"warning", "error"}
          THEN << Recommendation("Improve " \o Head(items).name,
                                 IF Head(items).status = "error" THEN "high" ELSE "medium",
                                 "meta") >>
          ELSE <<>>)
         \o MetaRecommendations(Tail(items))

RECURSIVE SecurityRecommendationsNewestFirst(_)
\* Mutation of SecurityRecommendations: each entry is put in front of the list
SecurityRecommendationsNewestFirst(security) ==
    IF security = <<>> THEN <<>>
    ELSE SecurityRecommendationsNewestFirst(Tail(security))
         \o (IF Head(security).status \in {"warning", "error"}
             THEN << Recommendation("Add " \o Head(security).name \o " header",
                                    "medium", "security") >>
             ELSE <<>>)

RECURSIVE SecurityRecommendations(_)
SecurityRecommendations(security) ==
    IF security = <<>> THEN <<>>
    ELSE (IF Head(security).status \in {"warning", "error"}
          THEN << Recommendation("Add " \o Head(security).name \o " header",
                                 "medium", "security") >>
          ELSE <<>>)
         \o SecurityRecommendations(Tail(security))

generateRecommendations(results) ==
    (IF HasPart(results, "meta", "items")
     THEN MetaRecommendations(results.meta.items) ELSE <<>>)
    \o (IF PerformanceScore(results) > 0 /\ PerformanceScore(results) < SlowBelow
        THEN << Recommendation("Improve Page Speed",
                               IF PerformanceScore(results) < VerySlowBelow
                               THEN "high" ELSE "medium",
                               "performance") >>
        ELSE <<>>)
    \o (IF HasPart(results, "headers", "security")
        THEN SecurityRecommendations(results.headers.security) ELSE <<>>)
    \o (IF HasPart(results, "links", "external") /\ results.links.external.broken > 0
        THEN << Recommendation("Fix broken external links", "high", "links") >>
        ELSE <<>>)
    \o (IF Has(results, "robots") /\ ~Found(results.robots, "robotsTxt")
        THEN << Recommendation("Add robots.txt file", "medium", "technical") >>
        ELSE <<>>)
    \o (IF Has(results, "robots") /\ ~Found(results.robots, "sitemap")
        THEN << Recommendation("Add XML sitemap", "medium", "technical") >>
        ELSE <<>>)

----------------------------------------------------------------------------
(* POST /api/audit *)

\* Mutation of UrlAccepted: the body is not validated
AnyBodyAccepted(u) == TRUE

\* auditRequestSchema.parse does not throw: url is a string that new URL parses
UrlAccepted(u) == UrlParses(u)

\* The message of the error auditRequestSchema.parse throws
ValidationMessage(u) == IF u.given THEN "Invalid URL format" ELSE "Required"

BadRequest == 400
Ok == 200
ServerError == 500

\* The name each analyzer has in the entries of errors
AnalyzerName ==
    [speed |-> "Speed", meta |-> "Meta", links |-> "Links",
     robots |-> "Robots", headers |-> "Headers"]

\* Mutation of AnalyzerOrder: the results are looked at last to first
LastToFirst == <<"headers", "robots", "links", "meta", "speed">>

\* The order in which the handler looks at the five results
AnalyzerOrder == <<"speed", "meta", "links", "robots", "headers">>

\* reason.message of a result that is not fulfilled
ReasonMessage(p) == IF p.st = "rejected" THEN p.reason ELSE "undefined"

\* Mutation of ErrorEntry: the message is pushed without the analyzer's name
BareErrorEntry(a, p) == ReasonMessage(p)

\* `${Name} analysis failed: ${reason.message}`
ErrorEntry(a, p) == AnalyzerName[a] \o " analysis failed: " \o ReasonMessage(p)

\* The value a fulfilled result puts in the report
ReportField(a, p) == IF a = "meta" THEN [items |-> p.value] ELSE p.value

RECURSIVE ProcessResultsWithDefaults(_, _)
\* Mutation of ProcessResults: a failed analyzer leaves an empty object in
\* its field
ProcessResultsWithDefaults(order, settled) ==
    IF order = <<>> THEN <<Empty, <<>>>>
    ELSE LET a == Head(order)
             rest == ProcessResultsWithDefaults(Tail(order), settled)
         IN IF settled[a].st = "fulfilled"
            THEN << [x \in {a} |-> ReportField(a, settled[a])] @@ rest[1], rest[2] >>
            ELSE << [x \in {a} |-> Empty] @@ rest[1],
                    <<ErrorEntry(a, settled[a])>> \o rest[2] >>

RECURSIVE ProcessResults(_, _)
\* Lines 83-111: <<fields, errors>> for the results of the given analyzers
ProcessResults(order, settled) ==
    IF order = <<>> THEN <<Empty, <<>>>>
    ELSE LET a == Head(order)
             rest == ProcessResults(Tail(order), settled)
         IN IF settled[a].st = "fulfilled"
            THEN << [x \in {a} |-> ReportField(a, settled[a])] @@ rest[1], rest[2] >>
            ELSE << rest[1], <<ErrorEntry(a, settled[a])>> \o rest[2] >>

\* The results object handed to res.json (timestamp left out)
AuditReport(u, settled) ==
    LET processed == ProcessResults(AnalyzerOrder, settled)
        errors == processed[2]
        \* the object the loop has filled, with what lines 114-117 add to it
        Completed ==
            [fields \in {[url |-> u] @@ processed[1]} |->
                fields
                @@ [scores |-> calculateScores(fields),
                    recommendations |-> generateRecommendations(fields)]
                @@ (IF Len(errors) > 0 THEN [errors |-> errors] ELSE Empty)]
    IN Completed[[url |-> u] @@ processed[1]]

\* The longest string V8 can build: JSON.stringify throws a RangeError
\* ("Invalid string length") beyond it
MaxStringLength == 2^29 - 24

\* A lower bound of the length of JSON.stringify(results): the title is in
\* the value and in the description of the Title finding, and in the
\* description of its recommendation when the finding is not good
JsonLengthAtLeast(results) ==
    IF HasPart(results, "meta", "items")
    THEN LET item == results.meta.items[1]
         IN item.length
            + (IF item.length > 0 THEN item.length ELSE 0)
            + (IF item.status # "good" THEN item.length ELSE 0)
    ELSE 0

\* res.json(results) throws
SerializeThrows(results) == JsonLengthAtLeast(results) > MaxStringLength

\* Mutation of JoinReady: the join of Promise.all, which settles with the
\* first rejection
FailFastJoin == \/ \E a \in Analyzers : promise[a].st = "rejected"
                \/ \A a \in Analyzers : promise[a].st = "fulfilled"

\* The promise of Promise.allSettled is fulfilled
JoinReady == \A a \in Analyzers : Settled(promise[a])

CallKinds ==
    {"psi-desktop", "psi-mobile", "meta-page", "links-page", "probe-internal",
     "probe-external", "robots-txt", "sitemap-xml", "headers-head", "headers-get"}

NothingIssued == [k \in CallKinds |-> 0]

Issue(count, kinds) == [k \in CallKinds |-> count[k] + (IF k \in kinds THEN 1 ELSE 0)]

\* The promise of analyzeSpeed at its first await
SpeedLaunched == IF KeyConfigured THEN Pending ELSE Rejected(KeyMissingMessage)

\* A scoring call when analyzeSpeed reaches its first await
ScoringCall == IF KeyConfigured THEN Pending ELSE None

\* analyzeLinks up to its await: new URL(url) comes first
LinksLaunched(u) ==
    IF UrlParses(u) THEN Pending ELSE Rejected("Links analysis failed: " \o InvalidUrl)

NoResponse == [status |-> 0]

Respond(status, body) == [status |-> status, body |-> body]

----------------------------------------------------------------------------
(* The state machine *)

Init ==
    /\ req \in Requests
    /\ apiKey \in BOOLEAN
    /\ pc = "idle"
    /\ promise = [a \in Analyzers |-> None]
    /\ desktop = None
    /\ mobile = None
    /\ metaCall = None
    /\ linkJob = NoJob
    /\ robotsProbe = None
    /\ sitemapProbe = None
    /\ headCall = None
    /\ getCall = None
    /\ issued = NothingIssued
    /\ res = NoResponse

\* POST /api/audit, lines 61-62 and 125-128: the body fails validation
AuditReject ==
    /\ pc = "idle"
    /\ req.route = "audit"
    /\ ~UrlAccepted(req.url)
    /\ res' = Respond(BadRequest, [error |-> ValidationMessage(req.url)])
    /\ pc' = "sent"
    /\ UNCHANGED <<req, apiKey, metaCall, promise, desktop, mobile, linkJob, robotsProbe,
                   sitemapProbe, headCall, getCall, issued>>

\* POST /api/audit, lines 61-73: the five analyzers run up to their first await
AuditLaunch ==
    /\ pc = "idle"
    /\ req.route = "audit"
    /\ UrlAccepted(req.url)
    /\ promise' = [speed |-> SpeedLaunched,
                   meta |-> Pending,
                   links |-> LinksLaunched(req.url),
                   robots |-> RobotsLaunched(req.url),
                   headers |-> Pending]
    /\ desktop' = ScoringCall
    /\ mobile' = ScoringCall
    /\ metaCall' = Pending
    /\ linkJob' = IF LinksLaunched(req.url) = Pending THEN FetchingPage ELSE NoJob
    /\ robotsProbe' = IF RobotsLaunched(req.url) = Pending THEN Pending ELSE None
    /\ sitemapProbe' = IF RobotsLaunched(req.url) = Pending THEN Pending ELSE None
    /\ headCall' = Pending
    /\ getCall' = None
    /\ issued' = Issue(issued,
                       (IF ScoringCall = Pending THEN {"psi-desktop", "psi-mobile"} ELSE {})
                       \cup {"meta-page", "headers-head"}
                       \cup (IF LinksLaunched(req.url) = Pending THEN {"links-page"} ELSE {})
                       \cup (IF RobotsLaunched(req.url) = Pending
                             THEN {"robots-txt", "sitemap-xml"} ELSE {}))
    /\ pc' = "waiting"
    /\ UNCHANGED <<req, apiKey, res>>

\* POST /api/audit, lines 75-128: the continuation of the await
AuditJoin ==
    /\ pc = "waiting"
    /\ req.route = "audit"
    /\ JoinReady
    /\ LET results == AuditReport(req.url, promise) IN
       res' = IF SerializeThrows(results)
              THEN Respond(BadRequest, [error |-> "Invalid string length"])
              ELSE Respond(Ok, results)
    /\ pc' = "sent"
    /\ UNCHANGED <<req, apiKey, metaCall, promise, desktop, mobile, linkJob, robotsProbe,
                   sitemapProbe, headCall, getCall, issued>>

\* GET /api/speed, lines 134-137: no url parameter
SpeedReject ==
    /\ pc = "idle"
    /\ req.route = "speed"
    /\ ~req.url.given
    /\ res' = Respond(BadRequest, [error |-> "URL parameter is required"])
    /\ pc' = "sent"
    /\ UNCHANGED <<req, apiKey, metaCall, promise, desktop, mobile, linkJob, robotsProbe,
                   sitemapProbe, headCall, getCall, issued>>

\* GET /api/speed, line 139: analyzeSpeed runs up to its first await
SpeedLaunch ==
    /\ pc = "idle"
    /\ req.route = "speed"
    /\ req.url.given
    /\ promise' = [promise EXCEPT !["speed"] = SpeedLaunched]
    /\ desktop' = ScoringCall
    /\ mobile' = ScoringCall
    /\ issued' = Issue(issued,
                       IF ScoringCall = Pending THEN {"psi-desktop", "psi-mobile"} ELSE {})
    /\ pc' = "waiting"
    /\ UNCHANGED <<req, apiKey, metaCall, linkJob, robotsProbe, sitemapProbe, headCall,
                   getCall, res>>

\* GET /api/speed, lines 139-144: the continuation of the await
SpeedRespond ==
    /\ pc = "waiting"
    /\ req.route = "speed"
    /\ Settled(promise["speed"])
    /\ res' = IF promise["speed"].st = "fulfilled"
              THEN Respond(Ok, promise["speed"].value)
              ELSE Respond(ServerError, [error |-> promise["speed"].reason])
    /\ pc' = "sent"
    /\ UNCHANGED <<req, apiKey, metaCall, promise, desktop, mobile, linkJob, robotsProbe,
                   sitemapProbe, headCall, getCall, issued>>

\* GET /api/meta, /api/links, /api/robots and /api/headers, lines 150-153,
\* 166-169, 182-185 and 198-201: no url parameter
PageRouteReject ==
    /\ pc = "idle"
    /\ req.route \in Routes \ {"audit", "speed"}
    /\ ~req.url.given
    /\ res' = Respond(BadRequest, [error |-> "URL parameter is required"])
    /\ pc' = "sent"
    /\ UNCHANGED <<req, apiKey, metaCall, promise, desktop, mobile, linkJob,
                   robotsProbe, sitemapProbe, headCall, getCall, issued>>

\* GET /api/meta, /api/links, /api/robots and /api/headers, lines 155, 171,
\* 187 and 203: the analyzer runs up to its first await
PageRouteLaunch ==
    /\ pc = "idle"
    /\ req.route \in Routes \ {"audit", "speed"}
    /\ req.url.given
    /\ CASE req.route = "meta" ->
               /\ promise' = [promise EXCEPT !["meta"] = Pending]
               /\ metaCall' = Pending
               /\ issued' = Issue(issued, {"meta-page"})
               /\ UNCHANGED <<linkJob, robotsProbe, sitemapProbe, headCall>>
         [] req.route = "links" ->
               /\ promise' = [promise EXCEPT !["links"] = LinksLaunched(req.url)]
               /\ linkJob' = IF LinksLaunched(req.url) = Pending
                             THEN FetchingPage ELSE NoJob
               /\ issued' = Issue(issued, IF LinksLaunched(req.url) = Pending
                                          THEN {"links-page"} ELSE {})
               /\ UNCHANGED <<metaCall, robotsProbe, sitemapProbe, headCall>>
         [] req.route = "robots" ->
               /\ promise' = [promise EXCEPT !["robots"] = RobotsLaunched(req.url)]
               /\ robotsProbe' = IF RobotsLaunched(req.url) = Pending
                                 THEN Pending ELSE None
               /\ sitemapProbe' = IF RobotsLaunched(req.url) = Pending
                                  THEN Pending ELSE None
               /\ issued' = Issue(issued, IF RobotsLaunched(req.url) = Pending
                                          THEN {"robots-txt", "sitemap-xml"} ELSE {})
               /\ UNCHANGED <<metaCall, linkJob, headCall>>
         [] req.route = "headers" ->
               /\ promise' = [promise EXCEPT !["headers"] = Pending]
               /\ headCall' = Pending
               /\ issued' = Issue(issued, {"headers-head"})
               /\ UNCHANGED <<metaCall, linkJob, robotsProbe, sitemapProbe>>
    /\ pc' = "waiting"
    /\ UNCHANGED <<req, apiKey, desktop, mobile, getCall, res>>

\* GET /api/meta, /api/links, /api/robots and /api/headers, lines 155-160,
\* 171-176, 187-192 and 203-208: the continuation of the await
PageRouteRespond ==
    /\ pc = "waiting"
    /\ req.route \in Routes \ {"audit", "speed"}
    /\ Settled(promise[req.route])
    /\ res' = IF promise[req.route].st = "fulfilled"
              THEN Respond(Ok, ReportField(req.route, promise[req.route]))
              ELSE Respond(ServerError, [error |-> promise[req.route].reason])
    /\ pc' = "sent"
    /\ UNCHANGED <<req, apiKey, metaCall, promise, desktop, mobile, linkJob,
                   robotsProbe, sitemapProbe, headCall, getCall, issued>>

\* analyzeSpeed: the desktop call settles
DesktopSettles ==
    /\ desktop = Pending
    /\ \E outcome \in DesktopOutcomes :
          /\ desktop' = outcome
          /\ promise' = [promise EXCEPT !["speed"] = SpeedAfter(outcome, mobile)]
    /\ UNCHANGED <<req, apiKey, metaCall, pc, mobile, linkJob, robotsProbe, sitemapProbe,
                   headCall, getCall, issued, res>>

\* analyzeSpeed: the mobile call settles
MobileSettles ==
    /\ mobile = Pending
    /\ \E outcome \in MobileOutcomes :
          /\ mobile' = outcome
          /\ promise' = [promise EXCEPT !["speed"] = SpeedAfter(desktop, outcome)]
    /\ UNCHANGED <<req, apiKey, metaCall, pc, desktop, linkJob, robotsProbe, sitemapProbe,
                   headCall, getCall, issued, res>>

\* analyzeMeta: the page request settles
MetaSettles ==
    /\ metaCall = Pending
    /\ \E outcome \in MetaOutcomes :
          /\ metaCall' = outcome
          /\ promise' = [promise EXCEPT !["meta"] = analyzeMetaSettles(outcome)]
    /\ UNCHANGED <<req, apiKey, pc, desktop, mobile, linkJob, robotsProbe,
                   sitemapProbe, headCall, getCall, issued, res>>

\* analyzeLinks: the page request fails
LinksPageFails ==
    /\ linkJob = FetchingPage
    /\ \E e \in (IF Fetchable(req.url) THEN PageFailures ELSE {UnsupportedProtocol}) :
          promise' = [promise EXCEPT !["links"] = Rejected("Links analysis failed: " \o e)]
    /\ linkJob' = NoJob
    /\ UNCHANGED <<req, apiKey, metaCall, pc, desktop, mobile, robotsProbe, sitemapProbe,
                   headCall, getCall, issued, res>>

\* analyzeLinks: the page arrives, its links are sorted into the two buckets
\* and the internal batch is probed
LinksPageArrives ==
    /\ linkJob = FetchingPage
    /\ Fetchable(req.url)
    /\ \E anchors \in LinkPages :
          /\ linkJob' = AfterPage(anchors, req.url)
          /\ promise' = [promise EXCEPT !["links"] = LinksPromise(linkJob')]
          /\ issued' = [issued EXCEPT
                 !["probe-internal"] = @ + ProbesStarted(linkJob, linkJob', "internal"),
                 !["probe-external"] = @ + ProbesStarted(linkJob, linkJob', "external")]
    /\ UNCHANGED <<req, apiKey, metaCall, pc, desktop, mobile, robotsProbe, sitemapProbe,
                   headCall, getCall, res>>

\* checkLinksStatus: one probe settles
ProbeSettles ==
    /\ linkJob.phase \in {"internal", "external"}
    /\ \E i \in 1..Len(linkJob.probes), outcome \in ProbeOutcomes :
          /\ linkJob.probes[i] = Pending
          /\ linkJob' = AfterInternal([linkJob EXCEPT
                            !.probes[i] = CheckedLink(linkJob.batch[i], outcome)])
          /\ promise' = [promise EXCEPT !["links"] = LinksPromise(linkJob')]
          /\ issued' = [issued EXCEPT
                 !["probe-external"] = @ + ProbesStarted(linkJob, linkJob', "external")]
    /\ UNCHANGED <<req, apiKey, metaCall, pc, desktop, mobile, robotsProbe, sitemapProbe,
                   headCall, getCall, res>>

\* checkRobotsTxt: the request for /robots.txt settles
RobotsTxtSettles ==
    /\ robotsProbe = Pending
    /\ \E outcome \in RobotsTxtOutcomes :
          /\ robotsProbe' = Probed(checkRobotsTxt(outcome), outcome)
          /\ promise' = [promise EXCEPT !["robots"] = RobotsAfter(robotsProbe', sitemapProbe)]
    /\ UNCHANGED <<req, apiKey, metaCall, pc, desktop, mobile, linkJob, sitemapProbe,
                   headCall, getCall, issued, res>>

\* checkSitemap: the request for /sitemap.xml settles
SitemapSettles ==
    /\ sitemapProbe = Pending
    /\ \E outcome \in SitemapOutcomes :
          /\ sitemapProbe' = Probed(checkSitemap(outcome), outcome)
          /\ promise' = [promise EXCEPT !["robots"] = RobotsAfter(robotsProbe, sitemapProbe')]
    /\ UNCHANGED <<req, apiKey, metaCall, pc, desktop, mobile, linkJob, robotsProbe,
                   headCall, getCall, issued, res>>

\* Mutation of HeadSettles: the HEAD request validates the status, as axios
\* does by default, and a 4xx or 5xx answer counts as a failure
HeadSettlesValidating ==
    /\ headCall = Pending
    /\ \E outcome \in HeaderOutcomes :
          IF Has(outcome, "error") \/ outcome.status >= 400
          THEN /\ headCall' = Rejected("Request failed") @@ [answer |-> outcome]
               /\ getCall' = Pending
               /\ issued' = Issue(issued, {"headers-get"})
               /\ UNCHANGED promise
          ELSE /\ headCall' = Called(outcome)
               /\ promise' = [promise EXCEPT
                      !["headers"] = Fulfilled(HeadersReport(outcome.body))]
               /\ UNCHANGED <<getCall, issued>>
    /\ UNCHANGED <<req, apiKey, metaCall, pc, desktop, mobile, linkJob, robotsProbe,
                   sitemapProbe, res>>

\* analyzeHeaders: the HEAD request settles
HeadSettles ==
    /\ headCall = Pending
    /\ \E outcome \in HeaderOutcomes :
          /\ headCall' = Called(outcome)
          /\ IF Has(outcome, "error")
             THEN /\ getCall' = Pending
                  /\ issued' = Issue(issued, {"headers-get"})
                  /\ UNCHANGED promise
             ELSE /\ promise' = [promise EXCEPT
                         !["headers"] = Fulfilled(HeadersReport(outcome.body))]
                  /\ UNCHANGED <<getCall, issued>>
    /\ UNCHANGED <<req, apiKey, metaCall, pc, desktop, mobile, linkJob, robotsProbe,
                   sitemapProbe, res>>

\* Mutation of GetSettles: a GET request that failed is sent once more
GetSettlesRetrying ==
    /\ getCall = Pending
    /\ \E outcome \in GetOutcomes :
          IF Has(outcome, "error") /\ issued["headers-get"] < 2
          THEN /\ issued' = Issue(issued, {"headers-get"})
               /\ UNCHANGED <<getCall, promise>>
          ELSE /\ getCall' = Called(outcome)
               /\ promise' = [promise EXCEPT !["headers"] =
                      IF Has(outcome, "error")
                      THEN Rejected("Headers analysis failed: " \o outcome.error)
                      ELSE Fulfilled(HeadersReport(outcome.body))]
               /\ UNCHANGED issued
    /\ UNCHANGED <<req, apiKey, metaCall, pc, desktop, mobile, linkJob, robotsProbe,
                   sitemapProbe, headCall, res>>

\* analyzeHeaders: the fallback GET request settles
GetSettles ==
    /\ getCall = Pending
    /\ \E outcome \in GetOutcomes :
          /\ getCall' = Called(outcome)
          /\ promise' = [promise EXCEPT !["headers"] =
                 IF Has(outcome, "error")
                 THEN Rejected("Headers analysis failed: " \o outcome.error)
                 ELSE Fulfilled(HeadersReport(outcome.body))]
    /\ UNCHANGED <<req, apiKey, metaCall, pc, desktop, mobile, linkJob, robotsProbe,
                   sitemapProbe, headCall, issued, res>>

Next ==
    \/ AuditReject
    \/ AuditLaunch
    \/ AuditJoin
    \/ SpeedReject
    \/ SpeedLaunch
    \/ SpeedRespond
    \/ PageRouteReject
    \/ PageRouteLaunch
    \/ PageRouteRespond
    \/ DesktopSettles
    \/ MobileSettles
    \/ MetaSettles
    \/ LinksPageFails
    \/ LinksPageArrives
    \/ ProbeSettles
    \/ RobotsTxtSettles
    \/ SitemapSettles
    \/ HeadSettles
    \/ GetSettles

Spec == Init /\ [][Next]_vars

\* POST /api/audit alone, for the plain site and the urls that reach no
\* site, with the scheduling the claims about its termination rest on: the
\* event loop runs every continuation that is ready, and every call that
\* is pending either answers or reaches the timeout it was given (30000 ms for the PageSpeed calls, 15000 ms for the
\* pages, the sitemap and the header requests, 10000 ms for robots.txt and
\* the link probes)
AuditInit == Init /\ req.route = "audit" /\ req.url.scheme # "https"

AuditNext ==
    \/ AuditReject
    \/ AuditLaunch
    \/ AuditJoin
    \/ DesktopSettles
    \/ MobileSettles
    \/ MetaSettles
    \/ LinksPageFails
    \/ LinksPageArrives
    \/ ProbeSettles
    \/ RobotsTxtSettles
    \/ SitemapSettles
    \/ HeadSettles
    \/ GetSettles

FairSpec ==
    /\ AuditInit
    /\ [][AuditNext]_vars
    /\ WF_vars(AuditReject) /\ WF_vars(AuditLaunch) /\ WF_vars(AuditJoin)
    /\ WF_vars(DesktopSettles) /\ WF_vars(MobileSettles) /\ WF_vars(MetaSettles)
    /\ WF_vars(LinksPageFails) /\ WF_vars(LinksPageArrives) /\ WF_vars(ProbeSettles)
    /\ WF_vars(RobotsTxtSettles) /\ WF_vars(SitemapSettles)
    /\ WF_vars(HeadSettles) /\ WF_vars(GetSettles)

----------------------------------------------------------------------------
(* Properties of POST /api/audit and of analyzeSpeed *)

\* The audit handler has answered
AuditAnswered == req.route = "audit" /\ pc = "sent"

\* The audit handler has answered 200 with a report
AuditReported == AuditAnswered /\ res.status = 200

ReportErrors == IF Has(res.body, "errors") THEN res.body.errors ELSE <<>>

Failed == {a \in Analyzers : promise[a].st = "rejected"}

\* The field of the report an analyzer's value is expected in
ExpectedField(a) ==
    IF a = "meta" THEN [items |-> promise[a].value] ELSE promise[a].value

ExpectedLabel ==
    [speed |-> "Speed analysis failed: ", meta |-> "Meta analysis failed: ",
     links |-> "Links analysis failed: ", robots |-> "Robots analysis failed: ",
     headers |-> "Headers analysis failed: "]

\* The number of entries of errors that report the failure of analyzer a
EntriesFor(a) ==
    Cardinality({i \in 1..Len(ReportErrors) :
                    ReportErrors[i] = ExpectedLabel[a] \o promise[a].reason})

\* C1: the audit is answered only once all five analyzers have settled,
\* whatever the order of their completions and whichever of them failed, and
\* the report then holds the value of every analyzer that succeeded.
C1_AnswerAfterAllSettled ==
    (AuditAnswered /\ UrlParses(req.url)) =>
        /\ \A a \in Analyzers : promise[a].st \in {"fulfilled", "rejected"}
        /\ res.status = 200 =>
              \A a \in Analyzers :
                  promise[a].st = "fulfilled" =>
                      Has(res.body, a) /\ res.body[a] = ExpectedField(a)

\* A report that holds the meta findings although the headers analyzer failed
C1_Witness ==
    /\ AuditReported
    /\ promise["headers"].st = "rejected"
    /\ promise["links"].st = "rejected"
    /\ promise["meta"].st = "fulfilled"
    /\ Has(res.body, "meta")

\* C2: in every report each analyzer either succeeded, with its field present
\* and no entry of errors, or failed, with its field absent and exactly one
\* entry "<Name> analysis failed: <message>"; errors has one entry per failed
\* analyzer and is absent when none failed.
C2_FieldOrError ==
    AuditReported =>
        /\ \A a \in Analyzers :
              IF promise[a].st = "fulfilled"
              THEN Has(res.body, a)
              ELSE /\ promise[a].st = "rejected"
                   /\ ~Has(res.body, a)
                   /\ EntriesFor(a) = 1
        /\ Len(ReportErrors) = Cardinality(Failed)
        /\ (Failed = {} <=> ~Has(res.body, "errors"))

\* A report with two failed analyzers and three fields
C2_Witness ==
    /\ AuditReported
    /\ Failed = {"meta", "headers"}
    /\ Len(ReportErrors) = 2
    /\ Has(res.body, "speed") /\ Has(res.body, "links") /\ Has(res.body, "robots")

ScoreFields == {"overall", "technical", "content", "performance", "mobile"}

\* C3: the scores of every report have the five fields, each an integer of
\* 0..100, whichever analyzers failed.
C3_ScoresInRange ==
    AuditReported =>
        /\ Has(res.body, "scores")
        /\ DOMAIN res.body.scores = ScoreFields
        /\ \A f \in ScoreFields : res.body.scores[f] \in 0..100

\* A report with a failed analyzer whose eight good findings reach the cap
C3_Witness ==
    /\ AuditReported
    /\ Failed # {}
    /\ promise["meta"].st = "fulfilled"
    /\ \A i \in 1..8 : promise["meta"].value[i].status = "good"
    /\ res.body.scores.content = 100

\* C4: when all five analyzers fail the answer is still a 200 report, with
\* five errors, none of the five fields, and every score 0.
C4_AllFailed ==
    (AuditAnswered /\ Failed = Analyzers) =>
        /\ res.status = 200
        /\ Has(res.body, "errors") /\ Len(res.body.errors) = 5
        /\ \A a \in Analyzers : ~Has(res.body, a)
        /\ \A f \in ScoreFields : res.body.scores[f] = 0

\* An answered audit all of whose analyzers failed
C4_Witness ==
    /\ AuditAnswered
    /\ \A a \in Analyzers : promise[a].st = "rejected"
    /\ res.status = 200

\* C5: a body without a url, or with a url that is no absolute URL, is
\* answered with a 4xx that carries the validation error, and no analyzer is
\* started and no outbound call is issued.
C5_InvalidUrlRejected ==
    (req.route = "audit" /\ pc # "idle"
        /\ (~req.url.given \/ req.url.scheme = ""
            \/ (req.url.scheme \in {"http", "https"} /\ req.url.host = ""))) =>
        /\ pc = "sent"
        /\ res.status \in 400..499
        /\ res.body \in {[error |-> "Required"], [error |-> "Invalid URL format"]}
        /\ \A a \in Analyzers : promise[a].st = "none"
        /\ \A k \in CallKinds : issued[k] = 0

\* The answer to a body whose url is "example.com"
C5_Witness ==
    /\ AuditAnswered
    /\ req.url = Url("", "example.com")
    /\ res.status = 400
    /\ res.body = [error |-> "Invalid URL format"]

\* C6: an audit is accepted, and an analyzer run, only for a url whose scheme
\* is http or https.
C6_OnlyHttpAccepted ==
    (req.route = "audit" /\ \E a \in Analyzers : promise[a].st # "none") =>
        req.url.scheme \in {"http", "https"}

\* C7: the status is 200, unless validation fails (a 4xx), or an exception is
\* thrown after validation has passed (a 5xx).
C7_StatusPolicy ==
    AuditAnswered =>
        IF ~UrlParses(req.url) THEN res.status \in 400..499
        ELSE IF Has(res.body, "error") THEN res.status \in 500..599
        ELSE res.status = 200

\* C8: without the credential analyzeSpeed fails without a scoring call, the
\* report has one Speed entry and no speed field, and the other four
\* analyzers run and are reported as usual.
C8_NoCredential ==
    (~apiKey /\ promise["speed"].st # "none") =>
        /\ promise["speed"] = [st |-> "rejected", reason |-> "PageSpeed API key not configured"]
        /\ issued["psi-desktop"] = 0 /\ issued["psi-mobile"] = 0
        /\ desktop.st = "none" /\ mobile.st = "none"
        /\ AuditReported =>
              /\ ~Has(res.body, "speed")
              /\ Cardinality({i \in 1..Len(ReportErrors) : ReportErrors[i] =
                     "Speed analysis failed: PageSpeed API key not configured"}) = 1
              /\ \A a \in Analyzers \ {"speed"} :
                    /\ promise[a].st \in {"fulfilled", "rejected"}
                    /\ promise[a].st = "fulfilled" =>
                          Has(res.body, a) /\ res.body[a] = ExpectedField(a)
                    /\ promise[a].st = "rejected" =>
                          ~Has(res.body, a) /\ EntriesFor(a) = 1

\* A report without the credential in which the other four analyzers succeeded
C8_Witness ==
    /\ AuditReported
    /\ ~apiKey
    /\ Failed = {"speed"}
    /\ Len(ReportErrors) = 1
    /\ \A a \in Analyzers \ {"speed"} : Has(res.body, a)

\* C9: with the credential, when both scoring calls fail analyzeSpeed fails,
\* so the report has no speed field and one Speed entry.
C9_BothCallsFail ==
    (apiKey /\ desktop.st = "rejected" /\ mobile.st = "rejected") =>
        /\ promise["speed"].st = "rejected"
        /\ AuditReported => ~Has(res.body, "speed")

\* score is Math.round of t / 10
IsRounded(score, t) == 10 * score - 5 <= t /\ t <= 10 * score + 4

\* The value the report must show for a vital, given the mobile audits
ExpectedVital(audits, id) ==
    IF id \in DOMAIN audits /\ audits[id] # "" THEN audits[id] ELSE "N/A"

\* C10: when exactly one scoring call succeeds analyzeSpeed succeeds with the
\* score of that strategy only; coreWebVitals is there only when the mobile
\* call succeeded, comes from the mobile result, and shows "N/A" for each of
\* the five metrics that result lacks.
C10_PartialSpeedReport ==
    LET p == promise["speed"]
        score(r) == IF r.perf = <<>> THEN 0 ELSE r.perf[1]
    IN /\ (desktop.st = "fulfilled" /\ mobile.st = "rejected") =>
              /\ p.st = "fulfilled"
              /\ DOMAIN p.value = {"performance"}
              /\ p.value.performance.strategy = "desktop"
              /\ IsRounded(p.value.performance.score, score(desktop.value))
       /\ (desktop.st = "rejected" /\ mobile.st = "fulfilled") =>
              /\ p.st = "fulfilled"
              /\ ~Has(p.value, "performance")
              /\ Has(p.value, "mobile")
              /\ p.value.mobile.strategy = "mobile"
              /\ IsRounded(p.value.mobile.score, score(mobile.value))
       /\ (p.st = "fulfilled" /\ Has(p.value, "coreWebVitals")) =>
              /\ mobile.st = "fulfilled"
              /\ mobile.value.audits # <<>>
              /\ DOMAIN p.value.coreWebVitals = {"lcp", "fid", "cls", "fcp", "si"}
              /\ p.value.coreWebVitals.lcp =
                     ExpectedVital(mobile.value.audits[1], "largest-contentful-paint")
              /\ p.value.coreWebVitals.fid =
                     ExpectedVital(mobile.value.audits[1], "max-potential-fid")
              /\ p.value.coreWebVitals.cls =
                     ExpectedVital(mobile.value.audits[1], "cumulative-layout-shift")
              /\ p.value.coreWebVitals.fcp =
                     ExpectedVital(mobile.value.audits[1], "first-contentful-paint")
              /\ p.value.coreWebVitals.si =
                     ExpectedVital(mobile.value.audits[1], "speed-index")

\* A report of the mobile call alone whose result lacks some of the metrics
C10_Witness ==
    /\ desktop.st = "rejected"
    /\ mobile.st = "fulfilled"
    /\ promise["speed"].st = "fulfilled"
    /\ DOMAIN promise["speed"].value = {"mobile", "coreWebVitals"}
    /\ promise["speed"].value.coreWebVitals.lcp = "N/A"
    /\ promise["speed"].value.coreWebVitals.fid = "N/A"
    /\ promise["speed"].value.coreWebVitals.si = "1.2 s"
    /\ promise["speed"].value.mobile.score = 67

----------------------------------------------------------------------------
(* Properties of calculateScores and generateRecommendations *)

\* The number of findings of a list whose status is good
GoodOnes(findings) ==
    Cardinality({i \in 1..Len(findings) : findings[i].status = "good"})

\* t is Math.round(sum / n)
IsMean(t, sum, n) == 2 * n * t - n <= 2 * sum /\ 2 * sum < 2 * n * t + n

\* C11: scores.performance is the desktop score of the speed report when it
\* has one, scores.mobile is its mobile score when it has one and else its
\* desktop score, and both are 0 when there is no speed data.
C11_SpeedScoresCopied ==
    AuditReported =>
        LET r == res.body
            desktopScore == IF HasPart(r, "speed", "performance")
                            THEN <<r.speed.performance.score>> ELSE <<>>
            mobileScore == IF HasPart(r, "speed", "mobile")
                           THEN <<r.speed.mobile.score>> ELSE <<>>
        IN /\ r.scores.performance =
                  (IF desktopScore # <<>> THEN desktopScore[1] ELSE 0)
           /\ r.scores.mobile =
                  (IF mobileScore # <<>> THEN mobileScore[1]
                   ELSE IF desktopScore # <<>> THEN desktopScore[1]
                   ELSE 0)

\* C12: scores.technical is the rounded mean of the factors present: 50 for
\* robots.txt found plus 50 for the sitemap found, and 20 per good security
\* header capped at 100; it is 0 when neither result is in the report.
C12_TechnicalScore ==
    AuditReported =>
        LET r == res.body
            robotsFactor ==
                IF Has(r, "robots")
                THEN << (IF r.robots.robotsTxt.found THEN 50 ELSE 0)
                        + (IF r.robots.sitemap.found THEN 50 ELSE 0) >>
                ELSE <<>>
            headersFactor ==
                IF Has(r, "headers")
                THEN << Min(100, 20 * GoodOnes(r.headers.security)) >>
                ELSE <<>>
            factors == robotsFactor \o headersFactor
        IN IF factors = <<>> THEN r.scores.technical = 0
           ELSE IsMean(r.scores.technical, SumSeq(factors), Len(factors))

\* A report with both factors: robots.txt without a sitemap, and one good
\* security header
C12_Witness ==
    /\ AuditReported
    /\ Has(res.body, "robots") /\ Has(res.body, "headers")
    /\ res.body.robots.robotsTxt.found /\ ~res.body.robots.sitemap.found
    /\ GoodOnes(res.body.headers.security) = 1
    /\ res.body.scores.technical = 35

\* C13: scores.content is min(100, 25 x the number of good meta findings)
\* when the meta results are there, and 0 when the meta analyzer failed.
C13_ContentScore ==
    AuditReported =>
        /\ promise["meta"].st = "rejected" => res.body.scores.content = 0
        /\ Has(res.body, "meta") =>
               res.body.scores.content = Min(100, 25 * GoodOnes(res.body.meta.items))

\* A report with two good findings among warnings and errors
C13_Witness ==
    /\ AuditReported
    /\ Has(res.body, "meta")
    /\ GoodOnes(res.body.meta.items) = 2
    /\ \E i \in 1..8 : res.body.meta.items[i].status = "warning"
    /\ \E i \in 1..8 : res.body.meta.items[i].status = "error"
    /\ res.body.scores.content = 50

\* C14: scores.overall is the rounded mean of the scores among technical,
\* content, performance and mobile that are above 0, and 0 when none is.
C14_OverallScore ==
    AuditReported =>
        LET sc == res.body.scores
            parts == <<sc.technical, sc.content, sc.performance, sc.mobile>>
            counted == Cardinality({i \in 1..4 : parts[i] > 0})
        IN IF counted = 0 THEN sc.overall = 0
           ELSE IsMean(sc.overall, SumSeq(parts), counted)

\* A report without a performance score whose mean of two is rounded up
C14_Witness ==
    /\ AuditReported
    /\ res.body.scores.performance = 0 /\ res.body.scores.mobile = 0
    /\ res.body.scores.technical > 0 /\ res.body.scores.content > 0
    /\ (res.body.scores.technical + res.body.scores.content) % 2 = 1
    /\ 2 * res.body.scores.overall
           = res.body.scores.technical + res.body.scores.content + 1

\* The findings of a list that are not good, in the order of the list
NotGood(findings) == SelectSeq(findings, LAMBDA f : f.status # "good")

Titles(recommendations) ==
    [i \in 1..Len(recommendations) |-> recommendations[i].title]

\* The titles of the recommendations of a report in their fixed order, with
\* or without the one for the page speed
TitlesInOrder(r, withSpeed) ==
    (IF Has(r, "meta")
     THEN [i \in 1..Len(NotGood(r.meta.items)) |->
              "Improve " \o NotGood(r.meta.items)[i].name]
     ELSE <<>>)
    \o (IF withSpeed THEN <<"Improve Page Speed">> ELSE <<>>)
    \o (IF Has(r, "headers")
        THEN [i \in 1..Len(NotGood(r.headers.security)) |->
                 "Add " \o NotGood(r.headers.security)[i].name \o " header"]
        ELSE <<>>)
    \o (IF Has(r, "links") /\ r.links.external.broken > 0
        THEN <<"Fix broken external links">> ELSE <<>>)
    \o (IF Has(r, "robots") /\ ~r.robots.robotsTxt.found
        THEN <<"Add robots.txt file">> ELSE <<>>)
    \o (IF Has(r, "robots") /\ ~r.robots.sitemap.found
        THEN <<"Add XML sitemap">> ELSE <<>>)

\* C15: the recommendations come in the fixed order: one per meta finding
\* that is not good, the one for the page speed, one per security header that
\* is not good, broken external links, missing robots.txt, missing sitemap; a
\* failed analyzer adds none, and nothing is merged or moved.
C15_RecommendationOrder ==
    AuditReported =>
        LET r == res.body
            titles == Titles(r.recommendations)
        IN \/ titles = TitlesInOrder(r, FALSE)
           \/ Has(r, "speed") /\ titles = TitlesInOrder(r, TRUE)

\* A report of five successful analyzers with recommendations of all five
\* sections, several of them for meta findings and for security headers
C15_Witness ==
    /\ AuditReported
    /\ Failed = {}
    /\ {res.body.recommendations[i].category :
            i \in 1..Len(res.body.recommendations)}
           = {"meta", "performance", "security", "links", "technical"}
    /\ Len(NotGood(res.body.headers.security)) >= 2
    /\ Len(NotGood(res.body.meta.items)) >= 2

\* C16: the priority follows the severity: high for a finding (meta or
\* security header) with status error, medium for one with status warning,
\* high for broken external links, medium for a missing robots.txt or sitemap.
C16_PriorityFromSeverity ==
    AuditReported =>
        LET r == res.body
            BySeverity(f) == IF f.status = "error" THEN "high" ELSE "medium"
        IN \A i \in 1..Len(r.recommendations) :
              LET rec == r.recommendations[i] IN
              /\ rec.category = "meta" =>
                    \E j \in 1..Len(r.meta.items) :
                        /\ rec.title = "Improve " \o r.meta.items[j].name
                        /\ rec.priority = BySeverity(r.meta.items[j])
              /\ rec.category = "security" =>
                    \E j \in 1..Len(r.headers.security) :
                        /\ rec.title = "Add " \o r.headers.security[j].name \o " header"
                        /\ rec.priority = BySeverity(r.headers.security[j])
              /\ rec.category = "links" => rec.priority = "high"
              /\ rec.category = "technical" => rec.priority = "medium"

----------------------------------------------------------------------------
(* Properties of analyzeMeta *)

\* C17: the Title finding is an error when the trimmed title is empty, a
\* warning when it has fewer than 30 or more than 60 characters, and good
\* when it has 30 to 60.
C17_TitleStatus ==
    metaCall.st = "fulfilled" =>
        LET trimmed == metaCall.value.title[2]
        IN promise["meta"].value[1].status =
               (IF trimmed = 0 THEN "error"
                ELSE IF trimmed < 30 \/ trimmed > 60 THEN "warning"
                ELSE "good")

\* GET /api/meta has answered for a page whose title is 60 characters
\* within white space
C17_Witness ==
    /\ req.route = "meta" /\ pc = "sent"
    /\ metaCall.st = "fulfilled"
    /\ metaCall.value.title = <<1, 60, 1>>
    /\ res.status = 200
    /\ res.body.items[1].name = "Title Tag"
    /\ res.body.items[1].status = "good"

FindingNames ==
    << "Title Tag", "Meta Description", "Canonical URL", "Open Graph Tags",
       "Twitter Cards", "Viewport Meta Tag", "Language Declaration", "H1 Tags" >>

\* C18: when analyzeMeta succeeds it returns the eight findings in their
\* fixed order, each with a status good, warning or error; when the request
\* for the page fails it fails with an error and returns no finding.
C18_EightFindingsOrNone ==
    LET p == promise["meta"] IN
    /\ p.st = "fulfilled" =>
          /\ metaCall.st = "fulfilled"
          /\ [i \in 1..Len(p.value) |-> p.value[i].name] = FindingNames
          /\ \A i \in 1..Len(p.value) :
                p.value[i].status \in {"good", "warning", "error"}
    /\ metaCall.st = "fulfilled" => p.st = "fulfilled"
    /\ metaCall.st = "rejected" =>
          /\ p.st = "rejected"
          /\ DOMAIN p = {"st", "reason"}
          /\ p.reason = "Meta analysis failed: " \o metaCall.reason
          /\ pc = "sent" => ~Has(res.body, "meta") /\ ~Has(res.body, "items")

\* GET /api/meta has answered with the error of a request that timed out
C18_Witness ==
    /\ req.route = "meta" /\ pc = "sent"
    /\ metaCall.st = "rejected"
    /\ res = Respond(500, [error |-> "Meta analysis failed: timeout of 15000ms exceeded"])

----------------------------------------------------------------------------
(* Properties of analyzeLinks *)

\* analyzeLinks has sorted the anchors of the page into its two buckets
LinksSorted == Has(linkJob, "allLinks")

\* The anchors of a bucket, without the type the bucket gave them
Anchors(bucket) == [j \in 1..Len(bucket) |-> bucket[j].href]

\* C19: an href is in at most one bucket; one that is empty, "#", starts
\* with javascript:, mailto: or tel:, or fails URL resolution is in neither;
\* any other is internal exactly when its resolved hostname is the hostname
\* of the audited url, and external otherwise.
C19_OneBucketPerHref ==
    LinksSorted =>
        LET all == linkJob.allLinks
            internal == Anchors(linkJob.internal)
            external == Anchors(linkJob.external)
            In(bucket, h) == \E j \in 1..Len(bucket) : bucket[j] = h
            Unresolved(h) ==
                \/ h.form \in {"protorel", "absolute"} /\ h.host = ""
                \/ h.form = "embedded"
            Neither(h) ==
                \/ h.form \in {"blank", "hash", "javascript", "mailto", "tel"}
                \/ Unresolved(h)
            SameHost(h) ==
                \/ h.form \in {"rooted", "relative"}
                \/ h.form \in {"protorel", "absolute"} /\ h.host = req.url.host
        IN /\ \A i \in 1..Len(all) :
                 LET h == all[i] IN
                 /\ ~(In(internal, h) /\ In(external, h))
                 /\ Neither(h) => ~In(internal, h) /\ ~In(external, h)
                 /\ ~Neither(h) => /\ In(internal, h) <=> SameHost(h)
                                   /\ In(external, h) <=> ~SameHost(h)
           /\ \A j \in 1..Len(internal) : In(all, internal[j])
           /\ \A j \in 1..Len(external) : In(all, external[j])
           /\ Len(internal) + Len(external)
                  = Cardinality({i \in 1..Len(all) : ~Neither(all[i])})

\* The page with the anchors "/" and "https://other.example/x", audited at
\* https://example.com
C19_Witness ==
    /\ LinksSorted
    /\ req.url = Url("https", "example.com")
    /\ linkJob.allLinks = << Href("rooted", ""), Href("absolute", "other.example") >>
    /\ Anchors(linkJob.internal) = << Href("rooted", "") >>
    /\ Anchors(linkJob.external) = << Href("absolute", "other.example") >>
    /\ linkJob.phase = "done"

\* C20: only the first 10 links of each category, in the order of their
\* discovery, are probed and reported, and external.total is the number of
\* all the external links discovered.
C20_FirstTenProbed ==
    LinksSorted =>
        LET all == linkJob.allLinks
            internal == Anchors(linkJob.internal)
            external == Anchors(linkJob.external)
            Among(bucket) ==
                SelectSeq(all, LAMBDA h : \E j \in 1..Len(bucket) : bucket[j] = h)
            FirstTen(bucket) == SubSeq(bucket, 1, Min(10, Len(bucket)))
        IN /\ internal = Among(internal)
           /\ external = Among(external)
           /\ issued["probe-internal"] = Min(10, Len(internal))
           /\ issued["probe-external"] =
                  (IF linkJob.phase = "internal" THEN 0 ELSE Min(10, Len(external)))
           /\ linkJob.phase \in {"internal", "external"} =>
                  /\ Len(linkJob.probes) <= 10
                  /\ Anchors(linkJob.batch) =
                         FirstTen(IF linkJob.phase = "internal"
                                  THEN internal ELSE external)
           /\ linkJob.phase = "done" =>
                  /\ Anchors(linkJob.report.internal.links) = FirstTen(internal)
                  /\ Anchors(linkJob.report.external.links) = FirstTen(external)
                  /\ linkJob.report.external.total = Len(external)
                  /\ linkJob.report.external.total
                         >= Len(linkJob.report.external.links)

\* GET /api/links has answered for a page with 12 links to its own site and
\* 11 to another: 10 of each are reported
C20_Witness ==
    /\ req.route = "links" /\ pc = "sent"
    /\ LinksSorted
    /\ Len(linkJob.internal) = 12
    /\ Len(linkJob.external) = 11
    /\ res.status = 200
    /\ Len(res.body.internal.links) = 10
    /\ Len(res.body.external.links) = 10
    /\ res.body.external.total = 11
    /\ res.body.internal.links[10].href.text = 28
    /\ res.body.external.links[10].href.text = 29

\* A probed link is broken exactly when its probe got a status of 400 or
\* more, or no answer at all
RightlyChecked(link) ==
    /\ link.status \in {"working", "broken"}
    /\ link.status = "broken" <=>
           (Has(link, "error") \/ (Has(link, "statusCode") /\ link.statusCode >= 400))

\* working + broken is the number of links probed, and the status of the
\* bucket is warning exactly when a link is broken
RightlyCounted(bucket) ==
    /\ \A i \in 1..Len(bucket.links) : RightlyChecked(bucket.links[i])
    /\ bucket.working + bucket.broken = Len(bucket.links)
    /\ bucket.broken =
           Cardinality({i \in 1..Len(bucket.links) : bucket.links[i].status = "broken"})
    /\ bucket.status = (IF bucket.broken > 0 THEN "warning" ELSE "good")

\* C21: a probed link is broken exactly when its probe got a status >= 400
\* or failed, and working otherwise; a failed probe never fails analyzeLinks;
\* in each bucket working + broken is the number of links probed and the
\* status is warning exactly when broken > 0.
C21_ProbeStatus ==
    /\ linkJob.phase \in {"internal", "external"} =>
          /\ promise["links"] = Pending
          /\ \A i \in 1..Len(linkJob.probes) :
                linkJob.probes[i] # Pending => RightlyChecked(linkJob.probes[i])
    /\ linkJob.phase = "done" =>
          /\ promise["links"] = Fulfilled(linkJob.report)
          /\ RightlyCounted(linkJob.report.internal)
          /\ RightlyCounted(linkJob.report.external)

\* A report after the probe of the internal link was answered 399 and the
\* probe of the external link timed out
C21_Witness ==
    /\ linkJob.phase = "done"
    /\ promise["links"].st = "fulfilled"
    /\ Len(linkJob.report.internal.links) = 1
    /\ Has(linkJob.report.internal.links[1], "statusCode")
    /\ linkJob.report.internal.links[1].statusCode = 399
    /\ linkJob.report.internal.status = "good"
    /\ Len(linkJob.report.external.links) = 1
    /\ Has(linkJob.report.external.links[1], "error")
    /\ linkJob.report.external.status = "warning"

\* The probe got a fetch failure or a status outside 200..299
ProbeFailed(probe) ==
    Has(probe.answer, "error") \/ probe.answer.status \notin 200..299

\* C22: in analyzeRobots a probe that got a non-2xx status or a fetch
\* failure reports found=false, accessible=false and a size or urlCount of
\* 0 for itself only; the report carries each probe's own result, and
\* analyzeRobots succeeds for every combination of probe outcomes
C22_ProbesFailIndependently ==
    /\ robotsProbe.st \in {"none", "pending", "fulfilled"}
    /\ sitemapProbe.st \in {"none", "pending", "fulfilled"}
    /\ robotsProbe.st = "fulfilled" /\ ProbeFailed(robotsProbe) =>
          /\ ~robotsProbe.value.found
          /\ ~robotsProbe.value.accessible
          /\ robotsProbe.value.size = 0
    /\ sitemapProbe.st = "fulfilled" /\ ProbeFailed(sitemapProbe) =>
          /\ ~sitemapProbe.value.found
          /\ ~sitemapProbe.value.accessible
          /\ sitemapProbe.value.urlCount = 0
    /\ robotsProbe.st # "none" => promise["robots"].st # "rejected"
    /\ robotsProbe.st = "fulfilled" /\ sitemapProbe.st = "fulfilled" =>
          /\ promise["robots"].st = "fulfilled"
          /\ promise["robots"].value.robotsTxt = robotsProbe.value
          /\ promise["robots"].value.sitemap = sitemapProbe.value

\* robots.txt answered 404 and the sitemap was found: the report says so
\* for each probe, and GET /api/robots answered 200
C22_Witness ==
    /\ req.route = "robots"
    /\ pc = "sent"
    /\ res.status = Ok
    /\ robotsProbe.st = "fulfilled"
    /\ ProbeFailed(robotsProbe)
    /\ sitemapProbe.st = "fulfilled"
    /\ ~ProbeFailed(sitemapProbe)
    /\ ~res.body.robotsTxt.found
    /\ res.body.sitemap.found
    /\ res.body.sitemap.urlCount = 3

\* The value each sample line declares, for the lines that are Sitemap
\* directives once an inline comment is stripped
DirectiveValue ==
    (SampleLine.s1 :> <<"s", "1">>) @@ (SampleLine.s2 :> <<"s", "2">>)
    @@ (SampleLine.upper :> <<"s", "4">>) @@ (SampleLine.tight :> <<"s", "5">>)
    @@ (SampleLine.bare :> <<>>)

RECURSIVE ValuesInOrder(_)
ValuesInOrder(lines) ==
    IF lines = <<>> THEN <<>>
    ELSE (IF Head(lines) \in DOMAIN DirectiveValue
          THEN <<DirectiveValue[Head(lines)]>> ELSE <<>>)
         \o ValuesInOrder(Tail(lines))

\* C23: for a robots.txt fetched with status 200, sitemaps is the list, in
\* file order, of the values of the lines that start with "sitemap:" in any
\* letter case once an inline # comment is stripped, and nothing else
C23_SitemapsInFileOrder ==
    robotsProbe.st = "fulfilled" /\ ~Has(robotsProbe.answer, "error")
        /\ robotsProbe.answer.status = OkStatus =>
    robotsProbe.value.sitemaps = ValuesInOrder(robotsProbe.answer.body)

\* Two Sitemap lines, the second in lower case with a comment: both values,
\* in that order
C23_Witness ==
    /\ robotsProbe.st = "fulfilled"
    /\ ~Has(robotsProbe.answer, "error")
    /\ robotsProbe.answer.status = OkStatus
    /\ robotsProbe.answer.body = <<SampleLine.s1, SampleLine.s2>>
    /\ robotsProbe.value.sitemaps = << <<"s", "1">>, <<"s", "2">> >>

\* C24: analyzeHeaders issues the HEAD request first and the GET only after
\* the HEAD request failed; a request that got a response has not failed,
\* whatever the status; the analyzer fails exactly when both requests
\* failed, and otherwise reports the headers of the response it got
C24_HeadThenGet ==
    /\ headCall.st # "none" => issued["headers-head"] = 1
    /\ getCall.st # "none" \/ issued["headers-get"] > 0 =>
          headCall.st = "rejected" /\ issued["headers-get"] = 1
    /\ headCall.st = "rejected" <=>
          headCall.st \notin {"none", "pending"} /\ Has(headCall.answer, "error")
    /\ getCall.st = "rejected" <=>
          getCall.st \notin {"none", "pending"} /\ Has(getCall.answer, "error")
    /\ headCall.st = "rejected" => getCall.st # "none"
    /\ promise["headers"].st = "rejected" <=>
          headCall.st = "rejected" /\ getCall.st = "rejected"
    /\ headCall.st = "fulfilled" =>
          promise["headers"] = Fulfilled(HeadersReport(headCall.answer.body))
    /\ getCall.st = "fulfilled" =>
          promise["headers"] = Fulfilled(HeadersReport(getCall.answer.body))

\* The HEAD request failed and the GET was answered 503: GET /api/headers
\* answered 200 with the findings
C24_Witness ==
    /\ req.route = "headers"
    /\ pc = "sent"
    /\ res.status = Ok
    /\ headCall.st = "rejected"
    /\ getCall.st = "fulfilled"
    /\ getCall.answer.status = 503
    /\ Len(res.body.security) = 4

\* The values received that hold an expected value of their header, in
\* any letter case
Matching ==
    [h \in {"x-content-type-options"} |->
        {NoSniff, <<"N", "O", "S", "N", "I", "F", "F">>, <<"x", "-", "n", "o", "s", "n", "i", "f", "f", ";">>}]
    @@ [h \in {"x-frame-options"} |->
        {Deny, SameOrigin, <<"s", "a", "m", "e", "o", "r", "i", "g", "i", "n">>, <<"d", "e", "n", "y", "-", "a", "l", "l">>}]

\* The answer whose headers analyzeHeaders classified
ClassifiedAnswer == IF headCall.st = "fulfilled" THEN headCall.answer ELSE getCall.answer

\* The status of the i-th security header as the words "absent is error,
\* no match is warning, otherwise good" give it
StatusAsStated(header, headers) ==
    IF ~Has(headers, header) THEN "error"
    ELSE IF header \in DOMAIN Matching /\ headers[header] \notin Matching[header]
    THEN "warning"
    ELSE "good"

\* The same with a header of empty value counted as absent
StatusAmended(header, headers) ==
    IF ~Has(headers, header) \/ headers[header] = <<>> THEN "error"
    ELSE StatusAsStated(header, headers)

FixedOrder ==
    << [name |-> "Strict-Transport-Security", header |-> "strict-transport-security"],
       [name |-> "X-Content-Type-Options", header |-> "x-content-type-options"],
       [name |-> "X-Frame-Options", header |-> "x-frame-options"],
       [name |-> "Content-Security-Policy", header |-> "content-security-policy"] >>

\* C25 as stated: the security findings are four, in the fixed order, each
\* error when its header is absent, warning when present without a match of
\* an expected value, good otherwise
C25_AsStated ==
    promise["headers"].st = "fulfilled" =>
        LET security == promise["headers"].value.security IN
        /\ Len(security) = 4
        /\ \A i \in 1..4 :
              /\ security[i].name = FixedOrder[i].name
              /\ security[i].status =
                     StatusAsStated(FixedOrder[i].header, ClassifiedAnswer.body)

\* C25: the security findings are four, in the fixed order, each by its own
\* header alone: error when the header is absent or has an empty value,
\* warning when present without a case-insensitive substring match of an
\* expected value, good otherwise
C25_SecurityFindings ==
    promise["headers"].st = "fulfilled" =>
        LET security == promise["headers"].value.security IN
        /\ Len(security) = 4
        /\ \A i \in 1..4 :
              /\ security[i].name = FixedOrder[i].name
              /\ security[i].status =
                     StatusAmended(FixedOrder[i].header, ClassifiedAnswer.body)

\* No HSTS, nosniff, SAMEORIGIN, no CSP: error, good, good, error
C25_Witness ==
    /\ promise["headers"].st = "fulfilled"
    /\ ~Has(ClassifiedAnswer.body, "strict-transport-security")
    /\ ~Has(ClassifiedAnswer.body, "content-security-policy")
    /\ Has(ClassifiedAnswer.body, "x-content-type-options")
    /\ ClassifiedAnswer.body["x-content-type-options"] = NoSniff
    /\ Has(ClassifiedAnswer.body, "x-frame-options")
    /\ ClassifiedAnswer.body["x-frame-options"] = SameOrigin
    /\ [i \in 1..4 |-> promise["headers"].value.security[i].status]
          = <<"error", "good", "good", "error">>

\* C26: every call carries a timeout, so once each pending call answers or
\* times out, a POST /api/audit with a valid URL sends its response: no
\* analyzer and no link probe keeps the join waiting forever
C26_AuditAnswers ==
    (req.route = "audit" /\ UrlAccepted(req.url)) ~> (pc = "sent" /\ res # NoResponse)

\* The audit answered although the HEAD and GET requests and a link probe
\* all ran into their timeouts
C26_Witness ==
    /\ req.route = "audit"
    /\ UrlAccepted(req.url)
    /\ pc = "sent"
    /\ res.status = Ok
    /\ headCall.st = "rejected"
    /\ getCall.st = "rejected"
    /\ getCall.answer.error = "timeout of 15000ms exceeded"
    /\ linkJob.phase = "done"
    /\ \E i \in 1..Len(linkJob.report.external.links) :
          /\ Has(linkJob.report.external.links[i], "error")
          /\ linkJob.report.external.links[i].error = "timeout of 10000ms exceeded"

\* The calls an analyzer makes once per request
SingleCalls == CallKinds \ {"probe-internal", "probe-external"}

\* No call is sent twice: each single call at most once, and at most one
\* probe for each link of a batch
NothingRepeated ==
    /\ \A k \in SingleCalls : issued[k] <= 1
    /\ Has(linkJob, "internal") =>
          /\ issued["probe-internal"] <= Len(Sample(linkJob.internal))
          /\ issued["probe-external"] <= Len(Sample(linkJob.external))
    /\ ~Has(linkJob, "internal") =>
          issued["probe-internal"] = 0 /\ issued["probe-external"] = 0

\* C27 as stated: nothing is retried, and once a fetch has failed no
\* analyzer sends a further request to the same url for that unit of work
C27_AsStated ==
    /\ NothingRepeated
    /\ headCall.st = "rejected" => issued["headers-get"] = 0

\* C27: no call is repeated within one request; a fetch that failed is
\* final for its unit of work, except that analyzeHeaders answers a failed
\* HEAD request with one GET request to the same url, which is final
C27_NoRetries ==
    /\ NothingRepeated
    /\ issued["headers-get"] > 0 => headCall.st = "rejected"
    /\ metaCall.st = "rejected" => promise["meta"].st = "rejected"
    /\ issued["links-page"] = 1 /\ linkJob = NoJob =>
          promise["links"].st = "rejected"
    /\ getCall.st = "rejected" => promise["headers"].st = "rejected"
    /\ robotsProbe.st = "fulfilled" /\ ProbeFailed(robotsProbe) =>
          ~robotsProbe.value.found
    /\ sitemapProbe.st = "fulfilled" /\ ProbeFailed(sitemapProbe) =>
          ~sitemapProbe.value.found

\* The audit answered after the HEAD request, the GET request, the request
\* for robots.txt and the page of analyzeMeta had each failed once
C27_Witness ==
    /\ req.route = "audit"
    /\ pc = "sent"
    /\ headCall.st = "rejected"
    /\ getCall.st = "rejected"
    /\ issued["headers-head"] = 1
    /\ issued["headers-get"] = 1
    /\ robotsProbe.st = "fulfilled"
    /\ ProbeFailed(robotsProbe)
    /\ issued["robots-txt"] = 1
    /\ metaCall.st = "rejected"
    /\ issued["meta-page"] = 1

\* The analyzers that failed, in the order Speed, Meta, Links, Robots,
\* Headers
FailedInOrder ==
    SelectSeq(<<"speed", "meta", "links", "robots", "headers">>,
              LAMBDA a : promise[a].st = "rejected")

\* C28: the entries of errors stand in the order Speed, Meta, Links,
\* Robots, Headers of the analyzers that failed, in every report, whatever
\* the order in which the analyzers settled
C28_ErrorsInFixedOrder ==
    AuditReported =>
        ReportErrors = [i \in 1..Len(FailedInOrder) |->
                           ExpectedLabel[FailedInOrder[i]]
                           \o promise[FailedInOrder[i]].reason]

\* Meta, Links and Headers failed, Robots did not: three entries in that
\* order
C28_Witness ==
    /\ AuditReported
    /\ FailedInOrder = <<"meta", "links", "headers">>
    /\ Len(ReportErrors) = 3
    /\ ReportErrors[1] =
          "Meta analysis failed: Meta analysis failed: timeout of 15000ms exceeded"
    /\ ReportErrors[3] =
          "Headers analysis failed: Headers analysis failed: timeout of 15000ms exceeded"

\* The probes of the batch in flight that have not settled
InFlight ==
    IF linkJob.phase \in {"internal", "external"}
    THEN {i \in 1..Len(linkJob.probes) : linkJob.probes[i] = Pending}
    ELSE {}

\* C29: no external probe is started before every internal probe has
\* settled, so at most 10 probes are in flight at once, and analyzeLinks
\* returns only after all the probes, at most 20, have settled
C29_InternalBeforeExternal ==
    /\ linkJob.phase = "internal" =>
          /\ issued["probe-external"] = 0
          /\ InFlight # {}
    /\ issued["probe-external"] > 0 =>
          /\ linkJob.phase \in {"external", "done"}
          /\ linkJob.phase = "external" =>
                /\ Len(linkJob.checkedInternal) = issued["probe-internal"]
                /\ \A i \in 1..Len(linkJob.checkedInternal) :
                       linkJob.checkedInternal[i] # Pending
    /\ Cardinality(InFlight) <= SampleLimit
    /\ issued["probe-internal"] + issued["probe-external"] <= 2 * SampleLimit
    /\ linkJob.phase \in {"internal", "external"} => promise["links"] = Pending
    /\ promise["links"].st = "fulfilled" =>
          /\ linkJob.phase = "done"
          /\ Len(linkJob.report.internal.links) = issued["probe-internal"]
          /\ Len(linkJob.report.external.links) = issued["probe-external"]

\* Ten internal probes have settled and ten external probes are in flight
C29_Witness ==
    /\ linkJob.phase = "external"
    /\ issued["probe-internal"] = SampleLimit
    /\ issued["probe-external"] = SampleLimit
    /\ Cardinality(InFlight) = SampleLimit
    /\ promise["links"] = Pending

\* C30: four security headers at 20 points each make a headers factor of at
\* most 80, which the cap of 100 never changes; a report with the headers
\* result has a technical score of at most 90, and of at most 80 when it has
\* no robots result
C30_TechnicalAtMost90 ==
    /\ promise["headers"].st = "fulfilled" =>
          LET headers == promise["headers"].value IN
          /\ HeaderPoints * CountGood(headers.security) <= 80
          /\ SecurityFactor(headers) = HeaderPoints * CountGood(headers.security)
          /\ TechnicalScore([headers |-> headers]) <= 80
    /\ AuditReported /\ Has(res.body, "headers") =>
          /\ res.body.scores.technical <= 90
          /\ ~Has(res.body, "robots") => res.body.scores.technical <= 80

\* Four good security headers, robots.txt and the sitemap found: technical
\* is 90
C30_Witness ==
    /\ AuditReported
    /\ Has(res.body, "headers")
    /\ Has(res.body, "robots")
    /\ CountGood(res.body.headers.security) = 4
    /\ res.body.robots.robotsTxt.found
    /\ res.body.robots.sitemap.found
    /\ res.body.scores.technical = 90

============================================================================
